---------------------------- MODULE Spec2Model ----------------------------
(***************************************************************************)
(* Model of the topology-aware communication package builder (TAPComm) of  *)
(* raptor, src/raptor/core/tap_comm.cpp.                                    *)
(*                                                                         *)
(* The module holds several specifications over one set of variables:      *)
(*   SpecTopo    the three rank-arithmetic functions (get_node,            *)
(*               get_local_proc, get_global_proc)                          *)
(*   SpecGather  gather_off_node_nodes on the processes of one host        *)
(*   SpecDisc    the probe-and-barrier exchange of find_global_comm_procs  *)
(*   SpecDiscFair  SpecDisc with the fairness of the MPI progress engine   *)
(*   SpecRebuild  the exchange run twice on the same input                 *)
(*   SpecCover   split_off_proc_cols and the recv ledgers of the R and L   *)
(*               stages on one process                                     *)
(*   SpecLedger  the message ledger (CommData) and its readers             *)
(*   SpecBitmap  gather_off_node_nodes on groups of up to five hosts       *)
(*   SpecAdjust  the send ledgers of the R, global and S stages of one     *)
(*               process and adjust_send_indices                           *)
(*   SpecExchange  discovery followed by the index-list exchange of        *)
(*               form_global_par_comm on every process                     *)
(*   SpecFixture  the construction of the package on the eight processes   *)
(*               of the block-vector test, and products through it         *)
(*   SpecPipeline  the stages of one product on every process              *)
(*   SpecSort     the sort, the fan-out loop and the reorder of            *)
(*               gather_off_node_nodes on any host list                    *)
(*   SpecStage    the S and L stages (form_local_S_par_comm,               *)
(*               form_local_L_par_comm) on the processes of one host       *)
(*   SpecShake    the handshake that ends form_local_R_par_comm,           *)
(*               form_local_S_par_comm and form_local_L_par_comm on the    *)
(*               processes of one host                                     *)
(*   SpecShakeFair  SpecShake with the fairness of the MPI progress engine *)
(*   SpecSetup    the setup messages of one construction: SpecExchange     *)
(*               or SpecShake                                              *)
(*   SpecHostView  gather_off_node_nodes as run by every process of a host *)
(* Every specification leaves the variables of the others at their idle    *)
(* value.                                                                  *)
(***************************************************************************)
EXTENDS Integers, Sequences, FiniteSets, Bags, TLC

\* ------------------------------------------------------------------------
\* Bounds of the model
\* ------------------------------------------------------------------------
MaxPPN == 3
MaxNodes == 3
\* most processes in the group (PPN * num_nodes)
MaxProcs == 9
\* most off-host columns needed by the processes of one host together
MaxVol == 5
\* largest eager / short-message threshold tried
MaxCutoff == 2
\* largest ideal fan-out tried
MaxIdeal == 3

\* ------------------------------------------------------------------------
\* State
\* ------------------------------------------------------------------------
VARIABLES
    rank_ordering,  \* TAPComm::rank_ordering, the rank-layout policy
    PPN,            \* TAPComm::PPN, processes per host
    num_nodes,      \* TAPComm::num_nodes, number of hosts
    eager_cutoff,   \* eager_cutoff, the eager/rendezvous threshold
    short_cutoff,   \* short_cutoff, the short-message threshold
    ideal_n_comm,   \* ideal_n_comm, the ideal fan-out
    topo,           \* the topology-mapper calls made by one process
    gather,         \* gather_off_node_nodes on the processes of one host
    disc,           \* find_global_comm_procs on every process of the group
    prev,           \* the peer lists of an earlier construction of the package
    cover,          \* split_off_proc_cols and the R and L recv ledgers of a process
    ledger,         \* a message ledger (CommData) and the reader of its slices
    pkg,            \* the S, global and R ledgers of a process and their index rewrite
    exch,           \* the index-list exchange of form_global_par_comm on every process
    tap,            \* the package of every process of the block-vector test, and a product
    local_stage     \* the S and L stages on the processes of one host

cfgVars == <<rank_ordering, PPN, num_nodes, eager_cutoff, short_cutoff, ideal_n_comm>>
vars == <<rank_ordering, PPN, num_nodes, eager_cutoff, short_cutoff, ideal_n_comm,
          topo, gather, disc, prev, cover, ledger, pkg, exch, tap, local_stage>>

\* What each part leaves unchanged
topoFrame == <<cfgVars, gather, disc, prev, cover, ledger, pkg, exch, tap, local_stage>>
gatherFrame == <<cfgVars, topo, disc, prev, cover, ledger, pkg, exch, tap, local_stage>>
discFrame == <<cfgVars, topo, gather, cover, ledger, pkg, exch, tap, local_stage>>
coverFrame == <<cfgVars, topo, gather, disc, prev, ledger, pkg, exch, tap, local_stage>>
ledgerFrame == <<cfgVars, topo, gather, disc, prev, cover, pkg, exch, tap, local_stage>>
pkgFrame == <<cfgVars, topo, gather, disc, prev, cover, ledger, exch, tap, local_stage>>
exchFrame == <<cfgVars, topo, gather, disc, prev, cover, ledger, pkg, tap, local_stage>>
tapFrame == <<cfgVars, topo, gather, disc, prev, cover, ledger, pkg, exch, local_stage>>
stageFrame == <<cfgVars, topo, gather, disc, prev, cover, ledger, pkg, exch, tap>>

\* Idle values of the parts a specification does not run
GatherIdle == [pc |-> "idle"]
DiscIdle == [pc |-> "idle"]
PrevNone == [built |-> FALSE]
CoverIdle == [pc |-> "idle"]
LedgerIdle == [pc |-> "idle"]
PkgIdle == [pc |-> "idle"]
ExchIdle == [pc |-> "idle"]
TapIdle == [pc |-> "idle"]
StageOff == [pc |-> "idle"]

\* ------------------------------------------------------------------------
\* Helpers
\* ------------------------------------------------------------------------
Range(s) == {s[i] : i \in DOMAIN s}

Min(a, b) == IF a < b THEN a ELSE b

\* All ranks of the process group (MPI_COMM_WORLD)
Ranks(ppn, nn) == 0 .. (ppn * nn - 1)

\* ------------------------------------------------------------------------
\* Topology mapper
\* ------------------------------------------------------------------------
\* The value every function returns for an unsupported policy
Sentinel == -1

\* A call's outcome: the code always returns an int; it has no error path.
Returned(v) == [raised |-> FALSE, value |-> v]

\* TAPComm::get_node(proc) evaluated with policy ro
get_node(ro, nn, ppn, proc) ==
    IF ro = 0 THEN proc % nn
    ELSE IF ro = 1 THEN proc \div ppn
    ELSE IF ro = 2 THEN
        IF (proc \div nn) % 2 = 0 THEN proc % nn
        ELSE nn - (proc % nn) - 1
    ELSE Sentinel

\* TAPComm::get_local_proc(proc)
get_local_proc(ro, nn, ppn, proc) ==
    IF ro = 0 \/ ro = 2 THEN proc \div nn
    ELSE IF ro = 1 THEN proc % ppn
    ELSE Sentinel

\* A mapper that lays policy 2 out without the fold of the odd rows
get_global_proc_unfolded(ro, nn, ppn, rank, node, local_proc) ==
    IF ro = 0 \/ ro = 2 THEN local_proc * nn + node
    ELSE IF ro = 1 THEN local_proc + (node * ppn)
    ELSE Sentinel

\* TAPComm::get_global_proc(node, local_proc) evaluated on process `rank`:
\* for policy 2 the fold is decided by the caller's own rank.
get_global_proc(ro, nn, ppn, rank, node, local_proc) ==
    IF ro = 0 THEN local_proc * nn + node
    ELSE IF ro = 1 THEN local_proc + (node * ppn)
    ELSE IF ro = 2 THEN
        IF (rank \div nn) % 2 = 0 THEN local_proc * nn + node
        ELSE local_proc * nn + nn - node - 1
    ELSE Sentinel

\* The unsupported branch prints on rank 0 only.
PrintsUnsupported(ro, rank) == ro \notin {0, 1, 2} /\ rank = 0

TopoIdle == [pc |-> "idle", rank |-> 0, proc |-> 0,
             node |-> Returned(0), local_proc |-> Returned(0),
             global_proc |-> Returned(0), printed |-> FALSE]

ConfigInit ==
    /\ rank_ordering \in 0 .. 3
    /\ PPN \in 1 .. MaxPPN
    /\ num_nodes \in 1 .. MaxNodes
    /\ PPN * num_nodes <= MaxProcs

\* The thresholds play no part outside gather_off_node_nodes.
CutoffsIdle ==
    /\ eager_cutoff = 1
    /\ short_cutoff = 1
    /\ ideal_n_comm = 1

TopoInit ==
    /\ ConfigInit
    /\ CutoffsIdle
    /\ gather = GatherIdle
    /\ disc = DiscIdle
    /\ prev = PrevNone
    /\ cover = CoverIdle
    /\ ledger = LedgerIdle
    /\ pkg = PkgIdle
    /\ exch = ExchIdle
    /\ tap = TapIdle
    /\ local_stage = StageOff
    /\ \E rk \in Ranks(PPN, num_nodes), r \in Ranks(PPN, num_nodes) :
          topo = [TopoIdle EXCEPT !.rank = rk, !.proc = r]

\* The process calls get_node(proc)
TopoGetNode ==
    /\ topo.pc = "idle"
    /\ topo' = [topo EXCEPT
                  !.pc = "node",
                  !.node = Returned(get_node(rank_ordering, num_nodes, PPN, topo.proc)),
                  !.printed = @ \/ PrintsUnsupported(rank_ordering, topo.rank)]
    /\ UNCHANGED topoFrame

\* The process calls get_local_proc(proc)
TopoGetLocalProc ==
    /\ topo.pc = "node"
    /\ topo' = [topo EXCEPT
                  !.pc = "local",
                  !.local_proc = Returned(get_local_proc(rank_ordering, num_nodes,
                                                          PPN, topo.proc)),
                  !.printed = @ \/ PrintsUnsupported(rank_ordering, topo.rank)]
    /\ UNCHANGED topoFrame

\* The process calls get_global_proc on the two results
TopoGetGlobalProc ==
    /\ topo.pc = "local"
    /\ topo' = [topo EXCEPT
                  !.pc = "global",
                  !.global_proc = Returned(get_global_proc(rank_ordering, num_nodes,
                                      PPN, topo.rank, topo.node.value,
                                      topo.local_proc.value)),
                  !.printed = @ \/ PrintsUnsupported(rank_ordering, topo.rank)]
    /\ UNCHANGED topoFrame

TopoNext == TopoGetNode \/ TopoGetLocalProc \/ TopoGetGlobalProc

SpecTopo == TopoInit /\ [][TopoNext]_vars

Supported == rank_ordering \in {0, 1, 2}

\* C4: for every supported policy, every rank r and every calling process,
\* get_global_proc(get_node(r), get_local_proc(r)) = r.
C4_RoundTripOnEveryProcess ==
    (Supported /\ topo.pc = "global") => topo.global_proc.value = topo.proc

\* C5: for an unsupported policy every one of the three functions raises a
\* configuration error instead of returning a value.
C5_UnsupportedPolicyRaises ==
    ~Supported =>
        /\ (topo.pc \in {"node", "local", "global"} => topo.node.raised)
        /\ (topo.pc \in {"local", "global"} => topo.local_proc.raised)
        /\ (topo.pc = "global" => topo.global_proc.raised)

\* ------------------------------------------------------------------------
\* gather_off_node_nodes (Host Discovery & Load Balancer)
\* ------------------------------------------------------------------------
\* sizeof(int): the code packs int_size host bits into each bitmap word
int_size == 4

LocalProcs(ppn) == 0 .. (ppn - 1)

Pow2(n) == IF n = 0 THEN 1 ELSE IF n = 1 THEN 2 ELSE IF n = 2 THEN 4 ELSE 8

\* (w >> j) & 1
Bit(w, j) == (w \div Pow2(j)) % 2

\* a | b on the int_size low bits
BitOr(a, b) ==
    LET bit(j) == IF Bit(a, j) = 1 \/ Bit(b, j) = 1 THEN Pow2(j) ELSE 0
    IN  bit(0) + bit(1) + bit(2) + bit(3)

\* N, the number of bitmap words (lines 97-101)
NumWords(nn) == (nn \div int_size) + (IF nn % int_size # 0 THEN 1 ELSE 0)

\* The loop of lines 106-113 over one process's off_node_col_to_node:
\* <<tmp_recv_nodes, node_sizes>>, both 0-based.
RECURSIVE MarkNodes(_, _, _, _)
MarkNodes(cols, k, words, sizes) ==
    IF k > Len(cols) THEN <<words, sizes>>
    ELSE LET nd  == cols[k]
             idx == nd \div int_size
             pos == nd % int_size
         IN  MarkNodes(cols, k + 1,
                       [words EXCEPT ![idx] = BitOr(@, Pow2(pos))],
                       [sizes EXCEPT ![nd] = @ + 1])

\* A reduction that takes the word of the last process alone
LastWordOnly(tmp, i, l) == tmp[l][i]

\* MPI_Allreduce(..., MPI_BOR, local_comm) of word i over the processes 0..l
RECURSIVE ReduceBOR(_, _, _)
ReduceBOR(tmp, i, l) ==
    IF l < 0 THEN 0 ELSE BitOr(tmp[l][i], ReduceBOR(tmp, i, l - 1))

\* MPI_Allreduce(..., MPI_SUM, local_comm) of entry nd over the processes 0..l
RECURSIVE ReduceSUM(_, _, _)
ReduceSUM(sizes, nd, l) ==
    IF l < 0 THEN 0 ELSE sizes[l][nd] + ReduceSUM(sizes, nd, l - 1)

\* The decode loop of lines 119-129, from bit b (= i*int_size + j) onward
RECURSIVE DecodeBits(_, _, _)
DecodeBits(words, b, nwords) ==
    IF b >= nwords * int_size THEN << >>
    ELSE (IF Bit(words[b \div int_size], b % int_size) = 1 THEN <<b>> ELSE << >>)
         \o DecodeBits(words, b + 1, nwords)

\* Every arrangement of the positions, in descending order of size or not
AnyPerms(sizes) ==
    LET n == Len(sizes)
    IN  {q \in [1 .. n -> 1 .. n] : \A i, j \in 1 .. n : i # j => q[i] # q[j]}

\* The permutations std::sort may leave in p (lines 146-152): the comparator
\* orders by descending size only, the order of equal sizes is unspecified.
SortedPerms(sizes) ==
    LET n == Len(sizes)
    IN  {q \in [1 .. n -> 1 .. n] :
            /\ \A i, j \in 1 .. n : i # j => q[i] # q[j]
            /\ \A i \in 1 .. n - 1 : ~(sizes[q[i + 1]] > sizes[q[i]])}

\* The fan-out decided for one host of aggregate volume `size`
\* (lines 162-177); 0 stands for the break of line 180.
FanOutOf(size, ctr, ppn, eager, short, ideal) ==
    IF size > eager THEN
        (IF size \div eager >= ppn THEN ideal ELSE size \div eager)
    ELSE IF size > short /\ ctr < ppn THEN
        (IF size \div short >= ppn THEN ppn ELSE size \div short)
    ELSE 0

\* The loop of lines 158-183 from sorted position i, with its break
RECURSIVE FanOutLoop(_, _, _, _, _, _, _, _)
FanOutLoop(i, q, sizes, nnl, ppn, eager, short, ideal) ==
    IF i > Len(q) THEN nnl
    ELSE LET idx     == q[i]
             n_procs == FanOutOf(sizes[idx], Len(q), ppn, eager, short, ideal)
         IN  IF n_procs = 0 THEN nnl
             ELSE FanOutLoop(i + 1, q, sizes, [nnl EXCEPT ![idx] = n_procs],
                             ppn, eager, short, ideal)

SwapAt(a, i, j) == [a EXCEPT ![i] = a[j], ![j] = a[i]]

\* A cycle walk that swaps every position of the cycle with its start
RECURSIVE FollowCycleFromStart(_, _, _, _, _, _, _)
FollowCycleFromStart(i, prev_j, j, q, rn, nnl, done) ==
    IF i = j THEN <<rn, nnl, done>>
    ELSE FollowCycleFromStart(i, j, q[j], q, SwapAt(rn, i, j), SwapAt(nnl, i, j),
                              [done EXCEPT ![j] = TRUE])

\* The inner while loop of lines 194-201: follows the cycle of p through i
RECURSIVE FollowCycle(_, _, _, _, _, _, _)
FollowCycle(i, prev_j, j, q, rn, nnl, done) ==
    IF i = j THEN <<rn, nnl, done>>
    ELSE FollowCycle(i, j, q[j], q, SwapAt(rn, prev_j, j), SwapAt(nnl, prev_j, j),
                     [done EXCEPT ![j] = TRUE])

\* The outer loop of lines 187-202: <<recv_nodes, nodal_num_local>> reordered
RECURSIVE ReorderLoop(_, _, _, _, _)
ReorderLoop(i, q, rn, nnl, done) ==
    IF i > Len(q) THEN <<rn, nnl>>
    ELSE IF done[i] THEN ReorderLoop(i + 1, q, rn, nnl, done)
    ELSE LET r == FollowCycle(i, i, q[i], q, rn, nnl, [done EXCEPT ![i] = TRUE])
         IN  ReorderLoop(i + 1, q, r[1], r[2], r[3])

\* The hosts other than `own`, and the column-to-host lists a process can
\* hold: non-decreasing (the columns are sorted by owner).
SortedLists(S, maxlen) ==
    {s \in UNION {[1 .. n -> S] : n \in 0 .. maxlen} :
        \A i \in 1 .. Len(s) - 1 : s[i] <= s[i + 1]}

RECURSIVE TotalLen(_, _)
TotalLen(lists, l) == IF l < 0 THEN 0 ELSE Len(lists[l]) + TotalLen(lists, l - 1)

\* The off_node_col_to_node lists of the processes of host `own`
HostColumnLists(own, nn, ppn) ==
    {c \in [LocalProcs(ppn) -> SortedLists((0 .. nn - 1) \ {own}, MaxVol)] :
        TotalLen(c, ppn - 1) <= MaxVol}

CutoffsInit ==
    /\ eager_cutoff \in 1 .. MaxCutoff
    /\ short_cutoff \in 1 .. MaxCutoff
    /\ ideal_n_comm \in 1 .. MaxIdeal

GatherInit ==
    /\ ConfigInit
    /\ rank_ordering = 1
    /\ CutoffsInit
    /\ topo = TopoIdle
    /\ disc = DiscIdle
    /\ prev = PrevNone
    /\ cover = CoverIdle
    /\ ledger = LedgerIdle
    /\ pkg = PkgIdle
    /\ exch = ExchIdle
    /\ tap = TapIdle
    /\ local_stage = StageOff
    /\ \E own \in 0 .. num_nodes - 1 :
         \E c \in HostColumnLists(own, num_nodes, PPN) :
            gather = [pc |-> "mark", rank_node |-> own,
                      off_node_col_to_node |-> c,
                      tmp_recv_nodes |-> << >>, node_sizes |-> << >>,
                      nodal_recv_nodes |-> << >>, recv_nodes |-> << >>,
                      nodal_off_node_sizes |-> << >>, p |-> << >>,
                      nodal_num_local |-> << >>]

\* lines 102-113: every process marks the hosts it needs and counts them
GatherMark ==
    /\ gather.pc = "mark"
    /\ LET N  == NumWords(num_nodes)
           w0 == [i \in 0 .. N - 1 |-> 0]
           s0 == [nd \in 0 .. num_nodes - 1 |-> 0]
           m  == [l \in LocalProcs(PPN) |->
                     MarkNodes(gather.off_node_col_to_node[l], 1, w0, s0)]
       IN  gather' = [gather EXCEPT
                        !.pc = "reduce",
                        !.tmp_recv_nodes = [l \in LocalProcs(PPN) |-> m[l][1]],
                        !.node_sizes = [l \in LocalProcs(PPN) |-> m[l][2]]]
    /\ UNCHANGED gatherFrame

\* lines 115-116: bitwise-OR reduction over the host
GatherReduceBitmap ==
    /\ gather.pc = "reduce"
    /\ gather' = [gather EXCEPT
                    !.pc = "decode",
                    !.nodal_recv_nodes =
                        [i \in 0 .. NumWords(num_nodes) - 1 |->
                            ReduceBOR(gather.tmp_recv_nodes, i, PPN - 1)]]
    /\ UNCHANGED gatherFrame

\* lines 118-129 (and 204-207 when no bit is set): decode the bitmap
GatherDecode ==
    /\ gather.pc = "decode"
    /\ LET rn == DecodeBits(gather.nodal_recv_nodes, 0, NumWords(num_nodes))
       IN  gather' = [gather EXCEPT
                        !.pc = IF Len(rn) > 0 THEN "sizes" ELSE "done",
                        !.recv_nodes = rn,
                        !.nodal_num_local = [i \in 1 .. Len(rn) |-> 1]]
    /\ UNCHANGED gatherFrame

\* lines 136-143: per-host volume summed over the host
GatherSizes ==
    /\ gather.pc = "sizes"
    /\ gather' = [gather EXCEPT
                    !.pc = "sort",
                    !.nodal_off_node_sizes =
                        [i \in 1 .. Len(gather.recv_nodes) |->
                            ReduceSUM(gather.node_sizes, gather.recv_nodes[i], PPN - 1)]]
    /\ UNCHANGED gatherFrame

\* lines 146-152: the sort permutation
GatherSort ==
    /\ gather.pc = "sort"
    /\ \E q \in SortedPerms(gather.nodal_off_node_sizes) :
          gather' = [gather EXCEPT !.pc = "fanout", !.p = q]
    /\ UNCHANGED gatherFrame

\* lines 158-183: the fan-out of every host
GatherFanOut ==
    /\ gather.pc = "fanout"
    /\ gather' = [gather EXCEPT
                    !.pc = "reorder",
                    !.nodal_num_local =
                        FanOutLoop(1, gather.p, gather.nodal_off_node_sizes,
                                   gather.nodal_num_local, PPN, eager_cutoff,
                                   short_cutoff, ideal_n_comm)]
    /\ UNCHANGED gatherFrame

\* lines 186-202: hosts and fan-outs brought into the sorted order
GatherReorder ==
    /\ gather.pc = "reorder"
    /\ LET r == ReorderLoop(1, gather.p, gather.recv_nodes, gather.nodal_num_local,
                            [i \in 1 .. Len(gather.p) |-> FALSE])
       IN  gather' = [gather EXCEPT !.pc = "done", !.recv_nodes = r[1],
                                    !.nodal_num_local = r[2]]
    /\ UNCHANGED gatherFrame

GatherNext ==
    \/ GatherMark
    \/ GatherReduceBitmap
    \/ GatherDecode
    \/ GatherSizes
    \/ GatherSort
    \/ GatherFanOut
    \/ GatherReorder

SpecGather == GatherInit /\ [][GatherNext]_vars

\* What gather_off_node_nodes returned
GatherDone == gather.pc = "done"

\* The aggregate volume of the host at position i of the returned list
VolumeAt(i) == ReduceSUM(gather.node_sizes, gather.recv_nodes[i], PPN - 1)

\* C6: in the returned list fan-out is non-increasing.
C6_FanOutNonIncreasing ==
    GatherDone =>
        \A i, j \in 1 .. Len(gather.recv_nodes) :
            i < j => gather.nodal_num_local[i] >= gather.nodal_num_local[j]

\* C7: every returned fan-out is at least 1 and at most PPN.
C7_FanOutWithinPPN ==
    GatherDone =>
        \A i \in 1 .. Len(gather.recv_nodes) :
            gather.nodal_num_local[i] >= 1 /\ gather.nodal_num_local[i] <= PPN

\* C8: a host whose volume exceeds the eager threshold gets the fan-out
\* min(volume div eager threshold, ideal fan-out).
C8_EagerFanOutCappedAtIdeal ==
    GatherDone =>
        \A i \in 1 .. Len(gather.recv_nodes) :
            VolumeAt(i) > eager_cutoff =>
                gather.nodal_num_local[i] =
                    Min(VolumeAt(i) \div eager_cutoff, ideal_n_comm)

\* ------------------------------------------------------------------------
\* find_global_comm_procs (Peer Discovery Protocol)
\* ------------------------------------------------------------------------
\* The process groups <<rank_ordering, PPN, num_nodes>> the exchange is run
\* on: two hosts under every supported policy, three hosts under fewer.
DiscShapes ==
    {<<0, 1, 2>>, <<1, 1, 2>>, <<2, 1, 2>>,
     <<0, 2, 2>>, <<1, 2, 2>>, <<2, 2, 2>>,
     <<1, 1, 3>>, <<2, 1, 3>>,
     <<1, 2, 3>>}

\* most off-host columns needed in the whole group
MaxDiscVol == 2

Procs == Ranks(PPN, num_nodes)
Hosts == 0 .. (num_nodes - 1)

NodeOf(r) == get_node(rank_ordering, num_nodes, PPN, r)
LocalRankOf(r) == get_local_proc(rank_ordering, num_nodes, PPN, r)

\* The process of host h whose rank in local_comm is l
ProcOn(h, l) == CHOOSE q \in Procs : NodeOf(q) = h /\ LocalRankOf(q) = l

\* The hosts with a set bit, in decode order (lines 119-129), from host b on
RECURSIVE HostsNeeded(_, _, _)
HostsNeeded(volrow, b, nn) ==
    IF b >= nn THEN << >>
    ELSE (IF volrow[b] > 0 THEN <<b>> ELSE << >>) \o HostsNeeded(volrow, b + 1, nn)

\* What gather_off_node_nodes can return on a host whose processes together
\* need volrow[g] columns of host g: the set of <<recv_nodes, nodal_num_local>>
GatherResults(volrow, nn, ppn, eager, short, ideal) ==
    LET rn0   == HostsNeeded(volrow, 0, nn)
        sizes == [i \in 1 .. Len(rn0) |-> volrow[rn0[i]]]
        ones  == [i \in 1 .. Len(rn0) |-> 1]
    IN  {LET r == ReorderLoop(1, q, rn0,
                              FanOutLoop(1, q, sizes, ones, ppn, eager, short, ideal),
                              [i \in 1 .. Len(rn0) |-> FALSE])
         IN  [recv_nodes |-> r[1], nodal_num_local |-> r[2]] :
         q \in SortedPerms(sizes)}

\* The host of every (host, fan-out slot) pair in the order of the double
\* loop of lines 254-256; slot ctr is at position ctr + 1.
RECURSIVE SlotHosts(_, _, _)
SlotHosts(rn, nnl, i) ==
    IF i > Len(rn) THEN << >>
    ELSE [j \in 1 .. nnl[i] |-> rn[i]] \o SlotHosts(rn, nnl, i + 1)

\* A share that is the whole list on every local rank
EveryPPNthWhole(s, l, ppn) == s

\* A slice that starts at index 0 whatever the local rank
RECURSIVE EveryPPNthFromZero(_, _, _)
EveryPPNthFromZero(s, l, ppn) ==
    IF s = << >> THEN << >>
    ELSE <<s[1]>> \o EveryPPNthFromZero(SubSeq(s, ppn + 1, Len(s)), l, ppn)

\* The entries of list s at the 0-based indices l, l + ppn, l + 2 ppn, ...
\* (ctr % PPN == local_rank, line 258; i = local_rank; i += PPN, line 315)
RECURSIVE EveryPPNth(_, _, _)
EveryPPNth(s, l, ppn) ==
    IF l >= Len(s) THEN << >>
    ELSE <<s[l + 1]>> \o EveryPPNth(s, l + ppn, ppn)

\* The targets of the probes process r issues, in order (lines 253-266)
ProbeTargets(r) ==
    LET in    == disc.in[NodeOf(r)]
        slots == EveryPPNth(SlotHosts(in.recv_nodes, in.nodal_num_local, 1),
                            LocalRankOf(r), PPN)
    IN  [k \in 1 .. Len(slots) |->
            get_global_proc(rank_ordering, num_nodes, PPN, r, slots[k], LocalRankOf(r))]

\* requests.resize(n_recv_nodes / PPN + 1), line 250
RequestSlots(r) == (Len(disc.in[NodeOf(r)].recv_nodes) \div PPN) + 1

\* The messages of one tag in flight: a bag of <<sender, destination>>
NoMessages == EmptyBag

\* The number of messages from s to d in flight
InFlight(net, s, d) == CopiesIn(<<s, d>>, net)

\* One more / one fewer message from s to d
Put(net, s, d) == net (+) SetToBag({<<s, d>>})
Take(net, s, d) == net (-) SetToBag({<<s, d>>})

RECURSIVE PutAll(_, _, _, _)
PutAll(net, s, targets, k) ==
    IF k > Len(targets) THEN net
    ELSE PutAll(Put(net, s, targets[k]), s, targets, k + 1)

\* MPI_Testall on the synchronous sends of r (lines 270, 281) when the sends
\* complete on the send call itself, as a buffered send does
SendsAckedOnSend(r) == TRUE

\* MPI_Testall on the synchronous sends of r (lines 270, 281): every
\* MPI_Issend of r has been matched by a receive
SendsAcked(r) == \A d \in Procs : InFlight(disc.probe, r, d) = 0

\* MPI_Test on the barrier request (lines 286, 295) when the barrier
\* completes without waiting for the other processes
BarrierCompleteAtOnce == TRUE

\* MPI_Test on the barrier request (lines 286, 295): every process of the
\* group has entered MPI_Ibarrier
BarrierComplete == disc.barrier = Procs

\* sendbuf of the processes of host h concatenated in local-rank order
\* (MPI_Allgatherv, lines 300-308), from local rank l on
RECURSIVE Gathered(_, _)
Gathered(h, l) ==
    IF l >= PPN THEN << >>
    ELSE disc.sendbuf[ProcOn(h, l)] \o Gathered(h, l + 1)

LeftDrainLoops == {"gather", "notify", "done"}

DiscStart(in) ==
    [pc |-> [r \in Procs |-> "start"],
     in |-> in,
     probe |-> NoMessages,
     note |-> NoMessages,
     n_recvs |-> [r \in Procs |-> 0],
     sendbuf |-> [r \in Procs |-> << >>],
     send_procs |-> [r \in Procs |-> << >>],
     recv_procs |-> [r \in Procs |-> << >>],
     overflow |-> [r \in Procs |-> FALSE],
     barrier |-> {},
     arrived |-> {}]

RECURSIVE SumOver(_, _)
SumOver(f, S) ==
    IF S = {} THEN 0
    ELSE LET x == CHOOSE y \in S : TRUE IN f[x] + SumOver(f, S \ {x})

\* The ways to give each host pair of the list `pairs` from position k on
\* a number of columns, `budget` columns at most altogether
RECURSIVE VolumesFrom(_, _, _)
VolumesFrom(pairs, k, budget) ==
    IF k > Len(pairs) THEN {<< >>}
    ELSE UNION {{<<n>> \o rest : rest \in VolumesFrom(pairs, k + 1, budget - n)} :
                n \in 0 .. budget}

\* The host pairs <<h, g>>, h # g, in a list
RECURSIVE PairList(_)
PairList(S) ==
    IF S = {} THEN << >>
    ELSE LET x == CHOOSE y \in S : TRUE IN <<x>> \o PairList(S \ {x})

\* The volumes between hosts: v[<<h, g>>] columns of host g needed on host h,
\* at most maxvol in the whole group
HostVolumes(maxvol) ==
    LET pairs == PairList({pr \in Hosts \X Hosts : pr[1] # pr[2]})
        IndexOf(pr) == CHOOSE k \in 1 .. Len(pairs) : pairs[k] = pr
    IN  {[pr \in Range(pairs) |-> vs[IndexOf(pr)]] :
            vs \in VolumesFrom(pairs, 1, maxvol)}

VolRow(v, h) == [g \in Hosts |-> IF g = h THEN 0 ELSE v[<<h, g>>]]

\* The off-host columns needed in the group all live on one host, whose
\* processes the other hosts compete for
OneOwner(v) ==
    \E owner \in Hosts : \A pr \in DOMAIN v : v[pr] > 0 => pr[2] = owner

\* The state at the call of find_global_comm_procs on every process of one
\* of the groups `shapes`, after gather_off_node_nodes has returned
DiscInitOn(shapes, maxvol, one_owner) ==
    /\ \E shape \in shapes :
          rank_ordering = shape[1] /\ PPN = shape[2] /\ num_nodes = shape[3]
    /\ CutoffsIdle
    /\ topo = TopoIdle
    /\ gather = GatherIdle
    /\ cover = CoverIdle
    /\ ledger = LedgerIdle
    /\ pkg = PkgIdle
    /\ exch = ExchIdle
    /\ tap = TapIdle
    /\ local_stage = StageOff
    /\ prev = PrevNone
    /\ \E v \in {w \in HostVolumes(maxvol) : one_owner => OneOwner(w)} :
         \E eager \in 1 .. MaxCutoff, short \in 1 .. MaxCutoff, ideal \in 1 .. MaxIdeal :
            LET results == [h \in Hosts |->
                              GatherResults(VolRow(v, h), num_nodes, PPN,
                                            eager, short, ideal)]
            IN  \E in \in [Hosts -> UNION Range(results)] :
                   /\ \A h \in Hosts : in[h] \in results[h]
                   /\ disc = DiscStart(in)

DiscInit == DiscInitOn(DiscShapes, MaxDiscVol, FALSE)

\* lines 249-266: the probes of process r, one MPI_Issend per claimed slot.
\* A request handle written past the end of `requests` is a heap overflow.
DiscIssend(r) ==
    /\ disc.pc[r] = "start"
    /\ LET targets == ProbeTargets(r)
           n       == Len(targets)
       IN  disc' = [disc EXCEPT
                      !.probe = PutAll(@, r, targets, 1),
                      !.n_recvs[r] = n,
                      !.overflow[r] = n > RequestSlots(r),
                      \* if (n_recvs) ... else straight to MPI_Ibarrier, line 284
                      !.pc[r] = IF n > 0 THEN "drain1" ELSE "drain2",
                      !.barrier = IF n > 0 THEN @ ELSE @ \cup {r}]
    /\ UNCHANGED <<discFrame, prev>>

\* lines 273-280 and 288-294: MPI_Iprobe finds a probe of s, MPI_Recv takes it
DiscRecvProbe(r, s) ==
    /\ disc.pc[r] \in {"drain1", "drain2"}
    /\ InFlight(disc.probe, s, r) > 0
    /\ disc' = [disc EXCEPT !.probe = Take(@, s, r),
                            !.sendbuf[r] = Append(@, s)]
    /\ UNCHANGED <<discFrame, prev>>

\* lines 281-285: MPI_Testall reports every probe of r acknowledged; r posts
\* the non-blocking barrier
DiscTestall(r) ==
    /\ disc.pc[r] = "drain1"
    /\ SendsAcked(r)
    /\ disc' = [disc EXCEPT !.pc[r] = "drain2", !.barrier = @ \cup {r}]
    /\ UNCHANGED <<discFrame, prev>>

\* lines 285, 295-300: MPI_Test reports the barrier complete; r enters the
\* allgather over the host
DiscBarrierDone(r) ==
    /\ disc.pc[r] = "drain2"
    /\ BarrierComplete
    /\ disc' = [disc EXCEPT !.pc[r] = "gather", !.arrived = @ \cup {r}]
    /\ UNCHANGED <<discFrame, prev>>

\* lines 300-334: the allgather returns on r once every process of the host
\* has entered it; r claims its share and notifies each claimed target.
\* With nothing to receive (n_recvs = 0) the loop of line 337 is empty,
\* MPI_Waitall returns (one int per notification, sent eagerly) and so does
\* the function.
DiscAllgather(r) ==
    /\ disc.pc[r] = "gather"
    /\ \A l \in LocalProcs(PPN) : ProcOn(NodeOf(r), l) \in disc.arrived
    /\ LET mine == EveryPPNth(Gathered(NodeOf(r), 0), LocalRankOf(r), PPN)
       IN  disc' = [disc EXCEPT !.pc[r] = IF disc.n_recvs[r] = 0 THEN "done" ELSE "notify",
                                !.send_procs[r] = mine,
                                !.note = PutAll(@, r, mine, 1)]
    /\ UNCHANGED <<discFrame, prev>>

\* lines 337-350: MPI_Probe finds a notification of s, MPI_Recv takes it;
\* after the n_recvs-th one MPI_Waitall returns and so does the function
DiscRecvNote(r, s) ==
    /\ disc.pc[r] = "notify"
    /\ InFlight(disc.note, s, r) > 0
    /\ disc' = [disc EXCEPT !.note = Take(@, s, r),
                            !.recv_procs[r] = Append(@, s),
                            !.pc[r] = IF Len(disc.recv_procs[r]) + 1 = disc.n_recvs[r]
                                      THEN "done" ELSE "notify"]
    /\ UNCHANGED <<discFrame, prev>>

\* The heap overflow of line 263 is undefined behaviour: the process either
\* goes on as if the array had been large enough, or is aborted at any
\* later point of the function (the corrupted heap is used by every later
\* allocation and release).
DiscAbort(r) ==
    /\ disc.overflow[r]
    /\ disc.pc[r] \notin {"done", "aborted"}
    /\ disc' = [disc EXCEPT !.pc[r] = "aborted"]
    /\ UNCHANGED <<discFrame, prev>>

\* The same overflow taking effect inside the loop of lines 254-266: the
\* first requests.size() handles fit, a later MPI_Issend writes past the
\* array and the process is aborted before the remaining probes are sent
\* (a checked operator[] aborts at the first handle past the end).
DiscAbortInLoop(r) ==
    /\ disc.pc[r] = "start"
    /\ LET targets == ProbeTargets(r)
       IN  /\ Len(targets) > RequestSlots(r)
           /\ \E k \in RequestSlots(r) .. Len(targets) - 1 :
                 disc' = [disc EXCEPT
                            !.probe = PutAll(@, r, SubSeq(targets, 1, k), 1),
                            !.n_recvs[r] = k,
                            !.overflow[r] = TRUE,
                            !.pc[r] = "aborted"]
    /\ UNCHANGED <<discFrame, prev>>

\* The steps a process takes by itself
DiscProgress ==
    \E r \in Procs :
        \/ DiscIssend(r)
        \/ DiscTestall(r)
        \/ DiscBarrierDone(r)
        \/ DiscAllgather(r)
        \/ \E s \in Procs : DiscRecvProbe(r, s)
        \/ \E s \in Procs : DiscRecvNote(r, s)

DiscUndefined == \E r \in Procs : DiscAbort(r) \/ DiscAbortInLoop(r)

DiscNext == DiscProgress \/ DiscUndefined

SpecDisc == DiscInit /\ [][DiscNext]_vars

\* Every process polls in its loops and the MPI library delivers every
\* message: a step that stays possible is taken.  No fairness on the abort.
SpecDiscFair == DiscInit /\ [][DiscNext]_vars /\ WF_vars(DiscProgress)

\* The number of entries of list s equal to x
RECURSIVE Count(_, _, _)
Count(s, x, k) ==
    IF k > Len(s) THEN 0
    ELSE (IF s[k] = x THEN 1 ELSE 0) + Count(s, x, k + 1)

C3_NoProbeMissedAtBarrier ==
    \A r \in Procs :
        disc.pc[r] \in LeftDrainLoops =>
            \A s \in Procs :
                /\ InFlight(disc.probe, s, r) = 0
                /\ Count(disc.sendbuf[r], s, 1) = Count(ProbeTargets(s), r, 1)

\* A process that issued probes and was the target of probes has left the
\* barrier loop.
C3_Witness ==
    \E r \in Procs :
        /\ disc.pc[r] \in LeftDrainLoops
        /\ disc.n_recvs[r] > 0
        /\ Len(disc.sendbuf[r]) > 0


\* The (host, fan-out slot) pairs of host h in the order of lines 254-256
SlotsOn(h) == SlotHosts(disc.in[h].recv_nodes, disc.in[h].nodal_num_local, 1)

\* The local ranks of host h that claim the slot with running index ctr
\* (ctr % PPN == local_rank, line 258)
Claimers(h, ctr) ==
    {l \in LocalProcs(PPN) :
        \E k \in 1 .. Len(EveryPPNth(SlotsOn(h), l, PPN)) : l + (k - 1) * PPN = ctr}

\* The probes process r has sent: those in flight and those received
ProbesSent(r) ==
    SumOver([d \in Procs |-> InFlight(disc.probe, r, d) + Count(disc.sendbuf[d], r, 1)],
            Procs)

C24_ProbeAddressedToSameLocalRank ==
    rank_ordering \in {0, 1, 2} =>
        /\ \A r \in Procs :
              LET slots == EveryPPNth(SlotsOn(NodeOf(r)), LocalRankOf(r), PPN)
              IN  \A k \in 1 .. Len(slots) :
                     /\ ProbeTargets(r)[k] \in Procs
                     /\ NodeOf(ProbeTargets(r)[k]) = slots[k]
                     /\ LocalRankOf(ProbeTargets(r)[k]) = LocalRankOf(r)
        /\ \A pr \in BagToSet(disc.probe) :
              /\ pr[2] \in Procs
              /\ LocalRankOf(pr[2]) = LocalRankOf(pr[1])
              /\ \E i \in 1 .. Len(disc.in[NodeOf(pr[1])].recv_nodes) :
                    disc.in[NodeOf(pr[1])].recv_nodes[i] = NodeOf(pr[2])

\* under the folded policy a process of an odd row has a probe in flight
C24_Witness ==
    /\ rank_ordering = 2
    /\ \E pr \in BagToSet(disc.probe) : LocalRankOf(pr[1]) = 1

\* The partners of a list of messages, each with the number of its messages
BagOfSeq(s) == [x \in Range(s) |-> Count(s, x, 1)]

\* The send partners of all processes of host h together, from local rank l on
RECURSIVE HostSendPartners(_, _)
HostSendPartners(h, l) ==
    IF l >= PPN THEN << >>
    ELSE disc.send_procs[ProcOn(h, l)] \o HostSendPartners(h, l + 1)

\* Every process of host h has its share of the gathered list
PastAllgather(h) ==
    \A l \in LocalProcs(PPN) : disc.pc[ProcOn(h, l)] \in {"notify", "done"}

\* C25: once the processes of a host have their send-peer lists, the entry
\* at index i of the host's gathered sender list is held by the process of
\* local rank i mod PPN and by no other, in list order: the lists
\* partition the gathered list, nothing dropped and nothing twice.
C25_SendPeersPartitionGathered ==
    \A h \in Hosts :
        PastAllgather(h) =>
            LET G == Gathered(h, 0)
            IN  /\ \A l \in LocalProcs(PPN) :
                      LET mine == disc.send_procs[ProcOn(h, l)]
                      IN  /\ Len(mine) = Cardinality({i \in 0 .. Len(G) - 1 : i % PPN = l})
                          /\ \A k \in 1 .. Len(mine) : mine[k] = G[(k - 1) * PPN + l + 1]
                /\ BagOfSeq(HostSendPartners(h, 0)) = BagOfSeq(G)

\* two processes of a host each hold one of the two gathered senders
C25_Witness ==
    \E h \in Hosts :
        /\ PPN = 2
        /\ PastAllgather(h)
        /\ Len(Gathered(h, 0)) = 2
        /\ Gathered(h, 0)[1] # Gathered(h, 0)[2]
        /\ \A l \in LocalProcs(PPN) : Len(disc.send_procs[ProcOn(h, l)]) = 1

\* The notifications sent to process r so far: in flight or received
NotesSentTo(r) ==
    SumOver([q \in Procs |-> InFlight(disc.note, q, r) + Count(disc.recv_procs[r], q, 1)],
            Procs)

\* Process r blocks in the loop of lines 337-343 / has returned
InNotifyLoop(r) == r \in Procs /\ disc.pc[r] = "notify"
LeftNotifyLoop(r) == r \in Procs /\ disc.pc[r] = "done"

RECURSIVE global_send_partners(_, _)
global_send_partners(send_procs, i) ==
    IF i > Len(send_procs) THEN << >>
    ELSE <<send_procs[i]>> \o global_send_partners(send_procs, i + 1)

\* No entry of list s occurs twice
NoDuplicates(s) == \A i, j \in 1 .. Len(s) : s[i] = s[j] => i = j

\* C11: no partner appears in more than one message of a ledger; here the
\* global send ledger of every process that has returned from discovery.
C11_NoPartnerTwice ==
    \A r \in Procs :
        disc.pc[r] = "done" =>
            NoDuplicates(global_send_partners(disc.send_procs[r], 1))

\* ------------------------------------------------------------------------
\* Two constructions on the same matrix structure and process group
\* ------------------------------------------------------------------------
\* The group the package is built twice on: three hosts of two processes
RebuildShapes == {<<1, 2, 3>>}

\* most off-host columns needed in the whole group
MaxRebuildVol == 4

\* most probes sent in the whole group in one construction
MaxRebuildProbes == 3

RECURSIVE SumSeq(_, _)
SumSeq(s, k) == IF k > Len(s) THEN 0 ELSE s[k] + SumSeq(s, k + 1)

\* The inputs of the two constructions: every needed column on one host
RebuildInit ==
    /\ DiscInitOn(RebuildShapes, MaxRebuildVol, TRUE)
    /\ SumOver([h \in Hosts |-> SumSeq(disc.in[h].nodal_num_local, 1)], Hosts)
          <= MaxRebuildProbes

\* The first construction has returned on every process; the package is
\* built again from the same input (gather_off_node_nodes is a function
\* of the matrix structure in one build of the program).  Of the first
\* construction the partners of every process are kept, not their order.
Rebuild ==
    /\ ~prev.built
    /\ \A r \in Procs : disc.pc[r] = "done"
    /\ prev' = [built |-> TRUE,
                send_procs |-> [r \in Procs |-> BagOfSeq(disc.send_procs[r])],
                recv_procs |-> [r \in Procs |-> BagOfSeq(disc.recv_procs[r])]]
    /\ disc' = DiscStart(disc.in)
    /\ UNCHANGED discFrame

RebuildNext == DiscNext \/ Rebuild

SpecRebuild == RebuildInit /\ [][RebuildNext]_vars

\* The partners of bag B counted by host
HostsOfBag(B) ==
    [h \in {NodeOf(q) : q \in DOMAIN B} |->
        SumOver([q \in DOMAIN B |-> IF NodeOf(q) = h THEN B[q] ELSE 0], DOMAIN B)]

RECURSIVE HostSendPartnersBefore(_, _)
HostSendPartnersBefore(h, l) ==
    IF l >= PPN THEN EmptyBag
    ELSE prev.send_procs[ProcOn(h, l)] (+) HostSendPartnersBefore(h, l + 1)

BothBuilt == prev.built /\ \A r \in Procs : disc.pc[r] = "done"

MaxMsgs == 2
MaxMsgLen == 2
MaxPos == 2

\* A ledger before any add_msg call.  `given` holds the positions handed to
\* add_msg, `implicit` tells for which messages they were omitted.
NewLedger ==
    [procs |-> << >>, counts |-> << >>, given |-> << >>, implicit |-> << >>,
     finalized |-> FALSE, indptr |-> << >>, indices |-> << >>]

\* add_msg(proc, count, positions)
add_msg(l, proc, positions) ==
    [l EXCEPT !.procs = Append(@, proc),
              !.counts = Append(@, Len(positions)),
              !.given = Append(@, positions),
              !.implicit = Append(@, FALSE)]

\* add_msg(proc, count): the positions are omitted
add_msg_count(l, proc, count) ==
    [l EXCEPT !.procs = Append(@, proc),
              !.counts = Append(@, count),
              !.given = Append(@, << >>),
              !.implicit = Append(@, TRUE)]

\* The prefix offsets of a list of counts: 0, c1, c1 + c2, ...
RECURSIVE Offsets(_, _)
Offsets(counts, k) ==
    IF k = 0 THEN <<0>>
    ELSE LET before == Offsets(counts, k - 1)
         IN  Append(before, before[k] + counts[k])

\* The positions of message i of ledger l: the given ones, or by convention
\* the contiguous range of its slice
PositionsOf(l, i) ==
    LET off == Offsets(l.counts, Len(l.counts))
    IN  IF l.implicit[i] THEN [j \in 1 .. l.counts[i] |-> off[i] + j - 1]
        ELSE l.given[i]

RECURSIVE Flatten(_, _)
Flatten(l, i) ==
    IF i > Len(l.counts) THEN << >>
    ELSE PositionsOf(l, i) \o Flatten(l, i + 1)

\* finalize(): the prefix offsets and the flattened index array
finalize(l) ==
    [l EXCEPT !.finalized = TRUE,
              !.indptr = Offsets(l.counts, Len(l.counts)),
              !.indices = Flatten(l, 1)]

\* The entries of array a at the 0-based indices start .. end - 1
Slice(a, start, end) == [j \in 1 .. (end - start) |-> a[start + j]]

\* A reader that takes the slice of message i to begin at the start of the
\* array
ReadSliceFromZero(l, i) == Slice(l.indices, 0, l.counts[i + 1])

\* The slice of the index array the assembler reads for message i (0-based):
\* start = indptr[i], end = indptr[i+1], indices[start .. end)
ReadSlice(l, i) == Slice(l.indices, l.indptr[i + 1], l.indptr[i + 2])

\* The messages <<partner, entries>> of a finalized ledger
MsgsOfLedger(l) == {<<l.procs[i], ReadSlice(l, i - 1)>> : i \in 1 .. Len(l.procs)}

\* The strictly increasing lists of at most n buffer positions up to MaxPos
\* (the assemblers hand add_msg slices of sorted lists)
RECURSIVE IncreasingFrom(_, _)
IncreasingFrom(lo, n) ==
    IF n = 0 THEN {<< >>}
    ELSE {<< >>} \cup
         UNION {{<<x>> \o rest : rest \in IncreasingFrom(x + 1, n - 1)} :
                x \in lo .. MaxPos}

\* The partners still to come: the assemblers add messages by increasing
\* local rank (the loop of lines 439-451)
LaterPartners(l) ==
    {q \in LocalProcs(PPN) : \A i \in 1 .. Len(l.procs) : l.procs[i] < q}

LedgerInit ==
    /\ rank_ordering = 0
    /\ num_nodes = 1
    /\ PPN \in 1 .. MaxPPN
    /\ CutoffsIdle
    /\ topo = TopoIdle
    /\ gather = GatherIdle
    /\ disc = DiscIdle
    /\ prev = PrevNone
    /\ cover = CoverIdle
    /\ ledger = [pc |-> "open", led |-> NewLedger, read |-> << >>]
    /\ pkg = PkgIdle
    /\ exch = ExchIdle
    /\ tap = TapIdle
    /\ local_stage = StageOff

\* add_msg with positions, called by an assembler while the ledger is open
LedgerAddMsg ==
    /\ ledger.pc = "open"
    /\ Len(ledger.led.counts) < MaxMsgs
    /\ \E proc \in LaterPartners(ledger.led) :
         \E positions \in IncreasingFrom(0, MaxMsgLen) :
            ledger' = [ledger EXCEPT !.led = add_msg(@, proc, positions)]
    /\ UNCHANGED ledgerFrame

\* add_msg without positions
LedgerAddCount ==
    /\ ledger.pc = "open"
    /\ Len(ledger.led.counts) < MaxMsgs
    /\ \E proc \in LaterPartners(ledger.led), n \in 0 .. MaxMsgLen :
         ledger' = [ledger EXCEPT !.led = add_msg_count(@, proc, n)]
    /\ UNCHANGED ledgerFrame

\* finalize, once
LedgerFinalize ==
    /\ ledger.pc = "open"
    /\ ledger' = [ledger EXCEPT !.led = finalize(@), !.pc = "sealed"]
    /\ UNCHANGED ledgerFrame

\* The assembler's loop over the messages of the sealed ledger: the next
\* message is read through its slice
LedgerRead ==
    /\ ledger.pc = "sealed"
    /\ Len(ledger.read) < Len(ledger.led.procs)
    /\ ledger' = [ledger EXCEPT !.read = Append(@, ReadSlice(ledger.led, Len(@)))]
    /\ UNCHANGED ledgerFrame

LedgerNext == LedgerAddMsg \/ LedgerAddCount \/ LedgerFinalize \/ LedgerRead

SpecLedger == LedgerInit /\ [][LedgerNext]_vars

\* C10: after finalize the offsets start at 0, consecutive offsets differ by
\* the recorded length of the message, the last offset is the length of the
\* index array, and what the assembler reads between indptr[i] and
\* indptr[i+1] is the positions of message i.
C10_OffsetsDelimitMessages ==
    ledger.pc = "sealed" =>
        LET l == ledger.led
            n == Len(l.procs)
        IN  /\ Len(l.indptr) = n + 1
            /\ l.indptr[1] = 0
            /\ \A i \in 1 .. n : l.indptr[i + 1] - l.indptr[i] = l.counts[i]
            /\ l.indptr[n + 1] = Len(l.indices)
            /\ \A i \in 1 .. Len(ledger.read) : ledger.read[i] = PositionsOf(l, i)

\* A sealed ledger of several messages, the first one not empty, one of them
\* added with positions, all read.
C10_Witness ==
    /\ ledger.pc = "sealed"
    /\ Len(ledger.led.procs) >= 2
    /\ ledger.led.counts[1] > 0
    /\ \E i \in 1 .. Len(ledger.led.procs) :
          ~ledger.led.implicit[i] /\ ledger.led.counts[i] > 0
    /\ Len(ledger.read) = Len(ledger.led.procs)

\* ------------------------------------------------------------------------
\* split_off_proc_cols and the recv ledgers of the R and L stages
\* ------------------------------------------------------------------------
\* most off-process columns of the process, most columns the other
\* processes of the host add to the volume of one remote host
MaxCols == 3
MaxOthersVol == 1

\* The process groups <<rank_ordering, PPN, num_nodes>> of the construction
CoverShapes ==
    {<<0, 2, 2>>, <<1, 2, 2>>, <<2, 2, 2>>, <<3, 2, 2>>, <<1, 1, 3>>, <<0, 2, 3>>}

\* A test that takes no owner for a process of the caller's host
on_other_node(ro, nn, ppn, rank, proc) == FALSE

\* node == rank_node (lines 51, 61-63)
on_rank_node(ro, nn, ppn, rank, proc) ==
    get_node(ro, nn, ppn, proc) = get_node(ro, nn, ppn, rank)

\* split_off_proc_cols, lines 34-77: the positions i of the off-process
\* column list go to the on-node or the off-node lists by the host of the
\* owner, each with its column id.
split_off_proc_cols(ro, nn, ppn, rank, off_proc_column_map, off_proc_col_to_proc) ==
    LET F[i \in 0 .. Len(off_proc_col_to_proc)] ==
            IF i = 0
            THEN [on_node_column_map |-> << >>,
                  on_node_col_to_proc |-> << >>, on_node_to_off_proc |-> << >>,
                  off_node_column_map |-> << >>,
                  off_node_col_to_node |-> << >>, off_node_to_off_proc |-> << >>]
            ELSE LET proc == off_proc_col_to_proc[i]
                     node == get_node(ro, nn, ppn, proc)
                     global_col == off_proc_column_map[i]
                 IN  IF on_rank_node(ro, nn, ppn, rank, proc)
                     THEN [F[i - 1] EXCEPT
                             !.on_node_column_map = Append(@, global_col),
                             !.on_node_col_to_proc =
                                 Append(@, get_local_proc(ro, nn, ppn, proc)),
                             !.on_node_to_off_proc = Append(@, i - 1)]
                     ELSE [F[i - 1] EXCEPT
                             !.off_node_column_map = Append(@, global_col),
                             !.off_node_col_to_node = Append(@, node),
                             !.off_node_to_off_proc = Append(@, i - 1)]
    IN  F[Len(off_proc_col_to_proc)]

\* lines 402-411: node_to_idx[node] = i for node = recv_nodes[i]; a host
\* that is not in recv_nodes keeps the 0 the vector was created with
node_to_idx(recv_nodes, node) ==
    IF \E i \in 1 .. Len(recv_nodes) : recv_nodes[i] = node
    THEN (CHOOSE i \in 1 .. Len(recv_nodes) :
              /\ recv_nodes[i] = node
              /\ \A j \in (i + 1) .. Len(recv_nodes) : recv_nodes[j] # node) - 1
    ELSE 0

\* A base that counts one slot for every host, whatever its fan-out
node_to_proc_one_each(nodal_num_local, ppn) ==
    [i \in 1 .. Len(nodal_num_local) |-> (i - 1) % ppn]

\* lines 402-411: node_to_proc[i] = ctr % PPN, ctr += nodal_num_local[i]
node_to_proc(nodal_num_local, ppn) ==
    LET ctr[i \in 0 .. Len(nodal_num_local)] ==
            IF i = 0 THEN 0 ELSE ctr[i - 1] + nodal_num_local[i]
    IN  [i \in 1 .. Len(nodal_num_local) |-> ctr[i - 1] % ppn]

\* lines 413-427: the local process every off-node column is received by,
\* the columns of one host dealt round-robin to its fan-out processes
off_node_col_to_lcl_proc(off_node_col_to_node, recv_nodes, nodal_num_local, ppn) ==
    LET n2p == node_to_proc(nodal_num_local, ppn)
        F[i \in 0 .. Len(off_node_col_to_node)] ==
            IF i = 0
            THEN [proc_idx |-> [k \in 1 .. Len(recv_nodes) |-> 0], out |-> << >>]
            ELSE LET idx == node_to_idx(recv_nodes, off_node_col_to_node[i]) + 1
                     pi  == F[i - 1].proc_idx
                 IN  [proc_idx |->
                         [pi EXCEPT ![idx] =
                             IF @ + 1 < nodal_num_local[idx] THEN @ + 1 ELSE 0],
                      out |-> Append(F[i - 1].out, (n2p[idx] + pi[idx]) % ppn)]
    IN  F[Len(off_node_col_to_node)].out

\* lines 428-436: local_recv_displs, the prefix sums of the per-process counts
local_recv_displs(col_to_lcl_proc, ppn) ==
    Offsets([q \in 1 .. ppn |-> Count(col_to_lcl_proc, q - 1, 1)], ppn)

\* A placement that never advances inside the block of a local process:
\* idx = local_recv_displs[local_proc]
PlaceAtBlockStart(col_to_lcl_proc, ppn) ==
    LET displs == local_recv_displs(col_to_lcl_proc, ppn)
        F[i \in 0 .. Len(col_to_lcl_proc)] ==
            IF i = 0 THEN [k \in 1 .. Len(col_to_lcl_proc) |-> 0]
            ELSE [F[i - 1] EXCEPT ![displs[col_to_lcl_proc[i] + 1] + 1] = i - 1]
    IN  F[Len(col_to_lcl_proc)]

\* lines 439-445: local_recv_indices, the column i written at
\* idx = local_recv_displs[local_proc] + local_recv_sizes[local_proc]++
local_recv_indices(col_to_lcl_proc, ppn) ==
    LET displs == local_recv_displs(col_to_lcl_proc, ppn)
        F[i \in 0 .. Len(col_to_lcl_proc)] ==
            IF i = 0
            THEN [sizes |-> [q \in 1 .. ppn |-> 0],
                  out |-> [k \in 1 .. Len(col_to_lcl_proc) |-> 0]]
            ELSE LET q == col_to_lcl_proc[i] + 1
                 IN  [sizes |-> [F[i - 1].sizes EXCEPT ![q] = @ + 1],
                      out |-> [F[i - 1].out EXCEPT
                                  ![displs[q] + F[i - 1].sizes[q] + 1] = i - 1]]
    IN  F[Len(col_to_lcl_proc)].out

\* lines 447-460: one message per local process with columns to receive,
\* then finalize
RECURSIVE R_recv_from(_, _, _, _, _)
R_recv_from(l, q, indices, displs, ppn) ==
    IF q >= ppn THEN finalize(l)
    ELSE R_recv_from(IF displs[q + 2] - displs[q + 1] > 0
                     THEN add_msg(l, q, Slice(indices, displs[q + 1], displs[q + 2]))
                     ELSE l,
                     q + 1, indices, displs, ppn)

R_recv_data(off_node_col_to_node, recv_nodes, nodal_num_local, ppn) ==
    LET to_lcl == off_node_col_to_lcl_proc(off_node_col_to_node, recv_nodes,
                                           nodal_num_local, ppn)
    IN  R_recv_from(NewLedger, 0, local_recv_indices(to_lcl, ppn),
                    local_recv_displs(to_lcl, ppn), ppn)

\* A grouping that closes a message after every entry
RECURSIVE L_recv_per_entry(_, _, _, _)
L_recv_per_entry(l, on_node_col_to_proc, prev_idx, i) ==
    IF i >= Len(on_node_col_to_proc)
    THEN finalize(add_msg_count(l, on_node_col_to_proc[prev_idx + 1],
                                Len(on_node_col_to_proc) - prev_idx))
    ELSE L_recv_per_entry(add_msg_count(l, on_node_col_to_proc[prev_idx + 1],
                                        i - prev_idx),
                          on_node_col_to_proc, i, i + 1)

\* lines 845-864: one message per run of equal owners in on_node_col_to_proc,
\* finalize only if there is an on-node column
RECURSIVE L_recv_from(_, _, _, _)
L_recv_from(l, on_node_col_to_proc, prev_idx, i) ==
    IF i >= Len(on_node_col_to_proc)
    THEN finalize(add_msg_count(l, on_node_col_to_proc[prev_idx + 1],
                                Len(on_node_col_to_proc) - prev_idx))
    ELSE IF on_node_col_to_proc[i + 1] # on_node_col_to_proc[prev_idx + 1]
         THEN L_recv_from(add_msg_count(l, on_node_col_to_proc[prev_idx + 1],
                                        i - prev_idx),
                          on_node_col_to_proc, i, i + 1)
         ELSE L_recv_from(l, on_node_col_to_proc, prev_idx, i + 1)

L_recv_data(on_node_col_to_proc) ==
    IF Len(on_node_col_to_proc) > 0
    THEN L_recv_from(NewLedger, on_node_col_to_proc, 0, 1)
    ELSE NewLedger

\* The non-decreasing lists of at most n owners out of S, from owner lo on
\* (the off-process columns are sorted and every process owns a block)
RECURSIVE OwnerLists(_, _, _)
OwnerLists(S, lo, n) ==
    IF n = 0 THEN {<< >>}
    ELSE {<< >>} \cup
         UNION {{<<q>> \o rest : rest \in OwnerLists(S, q, n - 1)} :
                q \in {x \in S : x >= lo}}

\* The column ids of a list of owners: process q owns the columns
\* q * MaxCols, q * MaxCols + 1, ..., and the list names the first ones of
\* every owner (off_proc_column_map is ascending)
off_proc_column_map_of(owners) ==
    [i \in 1 .. Len(owners) |->
        owners[i] * MaxCols + Cardinality({j \in 1 .. i - 1 : owners[j] = owners[i]})]

CoverInit ==
    /\ \E shape \in CoverShapes :
          rank_ordering = shape[1] /\ PPN = shape[2] /\ num_nodes = shape[3]
    /\ CutoffsIdle
    /\ topo = TopoIdle
    /\ gather = GatherIdle
    /\ disc = DiscIdle
    /\ prev = PrevNone
    /\ ledger = LedgerIdle
    /\ pkg = PkgIdle
    /\ exch = ExchIdle
    /\ tap = TapIdle
    /\ local_stage = StageOff
    /\ \E rank \in Procs :
         \E owners \in OwnerLists(Procs \ {rank}, 0, MaxCols) :
            cover = [pc |-> "start",
                     rank |-> rank,
                     off_proc_column_map |-> off_proc_column_map_of(owners),
                     off_proc_col_to_proc |-> owners,
                     split |-> split_off_proc_cols(rank_ordering, num_nodes, PPN,
                                                   rank, << >>, << >>),
                     recv_nodes |-> << >>,
                     nodal_num_local |-> << >>,
                     R_recv |-> NewLedger,
                     L_recv |-> NewLedger,
                     out_of_bounds |-> FALSE]

\* split_off_proc_cols
CoverSplit ==
    /\ cover.pc = "start"
    /\ cover' = [cover EXCEPT
                    !.pc = "split",
                    !.split = split_off_proc_cols(rank_ordering, num_nodes, PPN,
                                                  cover.rank, cover.off_proc_column_map,
                                                  cover.off_proc_col_to_proc)]
    /\ UNCHANGED coverFrame

\* gather_off_node_nodes returns on the process: the volume of a remote host
\* is what this process needs of it plus what the other processes of the
\* host need of it.  Under an unsupported policy every process takes every
\* column for an on-node one.
CoverGather ==
    /\ cover.pc = "split"
    /\ \E others \in [Hosts -> 0 .. (IF Supported THEN MaxOthersVol ELSE 0)] :
         \E eager \in 1 .. MaxCutoff, short \in 1 .. MaxCutoff, ideal \in 1 .. MaxIdeal :
            LET rank_node == get_node(rank_ordering, num_nodes, PPN, cover.rank)
                volrow == [g \in Hosts |->
                              IF g = rank_node THEN 0
                              ELSE Count(cover.split.off_node_col_to_node, g, 1)
                                   + others[g]]
            IN  \E res \in GatherResults(volrow, num_nodes, PPN, eager, short, ideal) :
                   cover' = [cover EXCEPT !.pc = "gathered",
                                          !.recv_nodes = res.recv_nodes,
                                          !.nodal_num_local = res.nodal_num_local]
    /\ UNCHANGED coverFrame

\* form_local_R_par_comm, the recv ledger (lines 402-460)
CoverFormR ==
    /\ cover.pc = "gathered"
    /\ cover' = [cover EXCEPT
                    !.pc = "R",
                    !.R_recv = R_recv_data(cover.split.off_node_col_to_node,
                                           cover.recv_nodes, cover.nodal_num_local, PPN)]
    /\ UNCHANGED coverFrame

\* form_local_L_par_comm, the recv ledger (lines 845-864).  recv_procs has
\* PPN entries: recv_procs[proc] = 1 with proc outside 0 .. PPN - 1 writes
\* out of bounds.
CoverFormL ==
    /\ cover.pc = "R"
    /\ cover' = [cover EXCEPT
                    !.pc = "done",
                    !.L_recv = L_recv_data(cover.split.on_node_col_to_proc),
                    !.out_of_bounds =
                        \E q \in Range(cover.split.on_node_col_to_proc) :
                            q \notin LocalProcs(PPN)]
    /\ UNCHANGED coverFrame

\* The out-of-bounds write is undefined behaviour: the construction goes on
\* as if nothing had been written, or the process is aborted.
CoverAbort ==
    /\ cover.pc = "done"
    /\ cover.out_of_bounds
    /\ cover' = [cover EXCEPT !.pc = "aborted"]
    /\ UNCHANGED coverFrame

CoverNext ==
    CoverSplit \/ CoverGather \/ CoverFormR \/ CoverFormL \/ CoverAbort

SpecCover == CoverInit /\ [][CoverNext]_vars

\* The positions of the off-process column list that the messages of ledger
\* l deliver, through the map from the list the ledger indexes
Delivered(l, to_off_proc) ==
    LET flat == Flatten(l, 1)
    IN  [e \in 1 .. Len(flat) |-> to_off_proc[flat[e] + 1]]

\* C1: after the construction every position of the off-process column list
\* is delivered by exactly one stage: an on-host column by exactly one
\* message of the L recv ledger, an off-host column by exactly one entry of
\* the index array of the R recv ledger.
C1_EveryColumnDeliveredOnce ==
    cover.pc = "done" =>
        LET byL == Delivered(cover.L_recv, cover.split.on_node_to_off_proc)
            byR == Delivered(cover.R_recv, cover.split.off_node_to_off_proc)
            rank_node == get_node(rank_ordering, num_nodes, PPN, cover.rank)
        IN  /\ cover.R_recv.indices = Flatten(cover.R_recv, 1)
            /\ \A k \in 1 .. Len(cover.off_proc_col_to_proc) :
                  LET node == get_node(rank_ordering, num_nodes, PPN,
                                       cover.off_proc_col_to_proc[k])
                  IN  IF node = rank_node
                      THEN Count(byL, k - 1, 1) = 1 /\ Count(byR, k - 1, 1) = 0
                      ELSE Count(byL, k - 1, 1) = 0 /\ Count(byR, k - 1, 1) = 1

\* A construction with on-host and off-host columns, the off-host columns
\* split over two local processes.
C1_Witness ==
    /\ cover.pc = "done"
    /\ Len(cover.split.on_node_col_to_proc) > 0
    /\ Len(cover.R_recv.procs) >= 2
    /\ \E i \in 1 .. Len(cover.nodal_num_local) : cover.nodal_num_local[i] >= 2

\* C18: split_off_proc_cols partitions the positions 0..n-1 of the
\* off-process column list: on_node_to_off_proc and off_node_to_off_proc are
\* strictly increasing, disjoint and together cover every position; a
\* position is on-host exactly when get_node(owner) is the caller's host; and
\* on_node_column_map[k] is the column at position on_node_to_off_proc[k]
\* paired with get_local_proc(owner), off_node_column_map[k] the column at
\* position off_node_to_off_proc[k] paired with get_node(owner).
StrictlyIncreasing(s) == \A i \in 1 .. Len(s) - 1 : s[i] < s[i + 1]

C18_SplitPartitionsPositions ==
    cover.pc \notin {"idle", "start"} =>
        LET sp    == cover.split
            cols  == cover.off_proc_column_map
            owner == cover.off_proc_col_to_proc
            on    == sp.on_node_to_off_proc
            off   == sp.off_node_to_off_proc
            host  == get_node(rank_ordering, num_nodes, PPN, cover.rank)
        IN  /\ StrictlyIncreasing(on) /\ StrictlyIncreasing(off)
            /\ Range(on) \cap Range(off) = {}
            /\ Range(on) \cup Range(off) = 0 .. (Len(owner) - 1)
            /\ \A i \in 0 .. (Len(owner) - 1) :
                  i \in Range(on) <=>
                      get_node(rank_ordering, num_nodes, PPN, owner[i + 1]) = host
            /\ Len(sp.on_node_column_map) = Len(on)
            /\ Len(sp.on_node_col_to_proc) = Len(on)
            /\ \A k \in 1 .. Len(on) :
                  /\ sp.on_node_column_map[k] = cols[on[k] + 1]
                  /\ sp.on_node_col_to_proc[k] =
                        get_local_proc(rank_ordering, num_nodes, PPN, owner[on[k] + 1])
            /\ Len(sp.off_node_column_map) = Len(off)
            /\ Len(sp.off_node_col_to_node) = Len(off)
            /\ \A k \in 1 .. Len(off) :
                  /\ sp.off_node_column_map[k] = cols[off[k] + 1]
                  /\ sp.off_node_col_to_node[k] =
                        get_node(rank_ordering, num_nodes, PPN, owner[off[k] + 1])

\* A list of three columns split into both lists, an on-host column lying
\* between two off-host ones
C18_Witness ==
    /\ cover.pc = "split"
    /\ Len(cover.off_proc_col_to_proc) = 3
    /\ cover.split.on_node_to_off_proc = <<1>>
    /\ cover.split.off_node_to_off_proc = <<0, 2>>

\* The local rank the rule routes the off-host column at position i of the
\* process's off-host list to: (base_H + (k mod fanout_H)) mod PPN, with H
\* the owning host, k the number of earlier columns of H in the list and
\* base_H the sum of the fan-outs of the hosts before H in the host list
RouteOf(i) ==
    LET c2n  == cover.split.off_node_col_to_node
        H    == c2n[i]
        k    == Cardinality({j \in 1 .. i - 1 : c2n[j] = H})
        idx  == CHOOSE x \in 1 .. Len(cover.recv_nodes) : cover.recv_nodes[x] = H
        base == Offsets(cover.nodal_num_local, Len(cover.nodal_num_local))[idx]
    IN  (base + (k % cover.nodal_num_local[idx])) % PPN

\* C27: in the R stage every off-host column is in the message of the local
\* rank the rule routes it to and in no other message; the recv ledger has
\* one message for every local rank with a column and none for the others.
C27_ColumnsRoutedRoundRobin ==
    cover.pc \in {"R", "done", "aborted"} =>
        LET l == cover.R_recv
            n == Len(cover.split.off_node_col_to_node)
            Holds(m, i) == \E e \in 1 .. l.counts[m] : PositionsOf(l, m)[e] = i - 1
        IN  /\ \A i \in 1 .. n :
                  \E m \in 1 .. Len(l.procs) :
                      /\ l.procs[m] = RouteOf(i)
                      /\ Holds(m, i)
                      /\ \A m2 \in 1 .. Len(l.procs) : Holds(m2, i) => m2 = m
            /\ \A m \in 1 .. Len(l.procs) :
                  /\ l.counts[m] = Cardinality({i \in 1 .. n : RouteOf(i) = l.procs[m]})
                  /\ l.counts[m] >= 1
            /\ NoDuplicates(l.procs)

\* two columns of a host of fan-out 2 go to two local ranks and a column of
\* the next host in the list goes to the rank after them, modulo PPN
C27_Witness ==
    /\ cover.pc = "R"
    /\ PPN = 2
    /\ Len(cover.recv_nodes) = 2
    /\ cover.nodal_num_local[1] = 2
    /\ Count(cover.split.off_node_col_to_node, cover.recv_nodes[1], 1) = 2
    /\ Count(cover.split.off_node_col_to_node, cover.recv_nodes[2], 1) = 1
    /\ Len(cover.R_recv.procs) = 2

\* C13: the construction finalizes every ledger exactly once on every
\* process, whatever its column sets are; here the recv ledgers of the R
\* and L stages.
C13_EveryLedgerFinalized ==
    cover.pc = "done" => cover.R_recv.finalized /\ cover.L_recv.finalized


\* ------------------------------------------------------------------------
\* The send ledgers of the R, global and S stages and adjust_send_indices
\* ------------------------------------------------------------------------
\* most messages a send ledger receives, most ids in one message
MaxPkgMsgs == 2
MaxPkgLen == 2

\* The process groups <<rank_ordering, PPN, num_nodes>> of the assembly.  The
\* matrix has one row and one column per process: process q owns global id q.
PkgShapes == {<<0, 2, 2>>, <<1, 2, 2>>, <<1, 1, 3>>}

\* The elements of the set S as an ascending list
RECURSIVE SortedUnique(_)
SortedUnique(S) ==
    IF S = {} THEN << >>
    ELSE LET m == CHOOSE x \in S : \A y \in S : x <= y
         IN  <<m>> \o SortedUnique(S \ {m})

\* The strictly increasing non-empty lists of at most n ids of S
IdLists(S, n) == {SortedUnique(T) : T \in {U \in SUBSET S : U # {} /\ Cardinality(U) <= n}}

\* The messages <<proc, ids>> a ledger can receive from k distinct senders
\* of `senders`, in every order of arrival
RECURSIVE Arrivals(_, _, _)
Arrivals(senders, ids, k) ==
    IF k = 0 \/ senders = {} \/ ids = {} THEN {<< >>}
    ELSE {<< >>} \cup
         UNION {{<<<<q, l>>>> \o rest : rest \in Arrivals(senders \ {q}, ids, k - 1),
                                       l \in IdLists(ids, MaxPkgLen)} :
                q \in senders}

\* add_msg for every received message, in the order of arrival
RECURSIVE AddAll(_, _, _)
AddAll(l, msgs, i) ==
    IF i > Len(msgs) THEN l
    ELSE AddAll(add_msg(l, msgs[i][1], msgs[i][2]), msgs, i + 1)

\* orig_nodes: the owning host of every id of the R send ledger (lines
\* 500-506); the owner of id c is process c
orig_nodes_of(indices) == [k \in 1 .. Len(indices) |-> NodeOf(indices[k])]

\* std::sort on a range of ints (line 591): the entries in ascending order
RECURSIVE sort(_)
sort(s) ==
    IF Len(s) = 0 THEN << >>
    ELSE LET i == CHOOSE x \in 1 .. Len(s) : \A y \in 1 .. Len(s) : s[x] <= s[y]
         IN  <<s[i]>> \o sort(SubSeq(s, 1, i - 1) \o SubSeq(s, i + 1, Len(s)))

\* A copy that keeps every entry of the sorted range
recv_buffer_all(sorted) == sorted

\* recv_buffer, lines 592-600: the first entry of the sorted range and every
\* later entry that differs from the entry before it
recv_buffer(sorted) ==
    LET keep == {j \in 1 .. Len(sorted) : j = 1 \/ sorted[j] # sorted[j - 1]}
        F[j \in 0 .. Len(sorted)] ==
            IF j = 0 THEN << >>
            ELSE IF j \in keep THEN Append(F[j - 1], sorted[j]) ELSE F[j - 1]
    IN  F[Len(sorted)]

\* node_recv_idx[node], lines 567-573: the index of the last entry of
\* recv_procs on host `node`; the vector is created with zeros
node_recv_idx(recv_procs, node) ==
    LET at == {i \in 1 .. Len(recv_procs) : NodeOf(recv_procs[i]) = node}
    IN  IF at = {} THEN 0 ELSE (CHOOSE i \in at : \A j \in at : j <= i) - 1

\* node_recv_displs, lines 567-573: for every entry of recv_procs the number
\* of ids of the R send ledger that come from its host, as prefix sums
node_recv_displs(orig_nodes, recv_procs) ==
    Offsets([i \in 1 .. Len(recv_procs) |-> Count(orig_nodes, NodeOf(recv_procs[i]), 1)],
            Len(recv_procs))

\* node_recv_indices, lines 575-582: the ids of the R send ledger written at
\* idx = node_recv_displs[node_idx] + node_recv_sizes[node_idx]++.  The vector
\* has one zero entry per id of the R send ledger; `out` is the memory from
\* its start on, `past` tells whether an id was written past its end.
node_recv_indices(indices, orig_nodes, recv_procs) ==
    LET n      == Len(recv_procs)
        displs == node_recv_displs(orig_nodes, recv_procs)
        cap    == Len(indices) + displs[n + 1]
        F[k \in 0 .. Len(indices)] ==
            IF k = 0
            THEN [sizes |-> [i \in 1 .. n |-> 0], out |-> [e \in 1 .. cap |-> 0],
                  past |-> FALSE]
            ELSE LET node_idx == node_recv_idx(recv_procs, orig_nodes[k]) + 1
                     idx      == displs[node_idx] + F[k - 1].sizes[node_idx]
                 IN  [sizes |-> [F[k - 1].sizes EXCEPT ![node_idx] = @ + 1],
                      out |-> [F[k - 1].out EXCEPT ![idx + 1] = indices[k]],
                      past |-> F[k - 1].past \/ idx >= Len(indices)]
    IN  IF n = 0
        THEN [out |-> [e \in 1 .. cap |-> 0], past |-> Len(indices) > 0]
        ELSE [out |-> F[Len(indices)].out, past |-> F[Len(indices)].past]

\* recv_data of the global stage, lines 553-603: the ids of the R send ledger
\* placed by the host they come from, the range of every recv process
\* sorted and stripped of adjacent duplicates, one message per recv process
\* with a non-empty range.
RECURSIVE global_recv_data(_, _, _, _)
global_recv_data(R_send, orig_nodes, recv_procs, i) ==
    IF i = 0 THEN NewLedger
    ELSE LET before == global_recv_data(R_send, orig_nodes, recv_procs, i - 1)
             displs == node_recv_displs(orig_nodes, recv_procs)
             start  == displs[i]
             end    == displs[i + 1]
             placed == node_recv_indices(R_send.indices, orig_nodes, recv_procs).out
         IN  IF end - start = 0 THEN before
             ELSE add_msg(before, recv_procs[i],
                          recv_buffer(sort(Slice(placed, start, end))))

\* An id is written, or a range sorted, past the end of node_recv_indices
\* (lines 581, 591): the ranges of recv_procs add up to more than there are
\* ids when two recv processes lie on one host
node_recv_overrun(R_send, orig_nodes, recv_procs) ==
    \/ node_recv_indices(R_send.indices, orig_nodes, recv_procs).past
    \/ node_recv_displs(orig_nodes, recv_procs)[Len(recv_procs) + 1] > Len(R_send.indices)

\* A walk that moves on only past a start strictly below global_col
orig_proc_strict(local_col_starts, global_col) ==
    LET stops == {q \in 0 .. PPN - 1 :
                     q + 1 = PPN \/ global_col <= local_col_starts[q + 2]}
    IN  CHOOSE q \in stops : \A y \in stops : q <= y

\* orig_procs, lines 680-698: the local process global_col is taken to come
\* from, found by walking local_col_starts upwards from process 0 until the
\* next start exceeds global_col (the lists of a message are ascending, so
\* the walk carried on from the entry before stops at the same process)
orig_proc(local_col_starts, global_col) ==
    LET stops == {q \in 0 .. PPN - 1 :
                     q + 1 = PPN \/ global_col < local_col_starts[q + 2]}
    IN  CHOOSE q \in stops : \A y \in stops : q <= y

\* recv_data of the S stage, lines 680-739: the ids of the global send ledger
\* bucketed by owning local process in ledger order (proc_indices, lines
\* 704-716), every non-empty bucket sorted and stripped of adjacent
\* duplicates (lines 718-738)
RECURSIVE local_S_recv_data(_, _, _)
local_S_recv_data(G_send, local_col_starts, i) ==
    IF i = 0 THEN NewLedger
    ELSE LET before == local_S_recv_data(G_send, local_col_starts, i - 1)
             proc_indices == SelectSeq(G_send.indices,
                                 LAMBDA c : orig_proc(local_col_starts, c) = i - 1)
         IN  IF Len(proc_indices) = 0 THEN before
             ELSE add_msg(before, i - 1, recv_buffer(sort(proc_indices)))

\* A lookup that leaves the global id in place
global_id_kept(indices, idx) == idx

\* A lookup that counts the positions from 1
global_to_local_one_based(indices, idx) ==
    LET at == {i \in 1 .. Len(indices) : indices[i] = idx}
    IN  IF at = {} THEN 0
        ELSE CHOOSE i \in at : \A j \in at : j <= i

\* S_global_to_local[idx], global_to_local[idx] (lines 793-813): the 0-based
\* position of the last entry of `indices` equal to idx; operator[] of
\* std::map yields 0 for an id that is not a key
global_to_local(indices, idx) ==
    LET at == {i \in 1 .. Len(indices) : indices[i] = idx}
    IN  IF at = {} THEN 0
        ELSE (CHOOSE i \in at : \A j \in at : j <= i) - 1

\* adjust_send_indices(first_local_row), lines 780-815
adjust_send_indices(p, first_local_row) ==
    [p EXCEPT
        !.S_send.indices = [i \in 1 .. Len(@) |-> @[i] - first_local_row],
        !.G_send.indices = [i \in 1 .. Len(@) |->
                               global_to_local(p.S_recv.indices, @[i])],
        !.R_send.indices = [i \in 1 .. Len(@) |->
                               global_to_local(p.G_recv.indices, @[i])]]

\* The ids owned by the processes of host h, and by the other hosts.  The
\* caller is a process of the last host (the hosts are alike).
IdsOn(h) == {q \in Procs : NodeOf(q) = h}
IdsOff(h) == {q \in Procs : NodeOf(q) # h}

PkgInit ==
    /\ \E shape \in PkgShapes :
          rank_ordering = shape[1] /\ PPN = shape[2] /\ num_nodes = shape[3]
    /\ CutoffsIdle
    /\ topo = TopoIdle
    /\ gather = GatherIdle
    /\ disc = DiscIdle
    /\ prev = PrevNone
    /\ cover = CoverIdle
    /\ ledger = LedgerIdle
    /\ exch = ExchIdle
    /\ tap = TapIdle
    /\ local_stage = StageOff
    /\ \E r \in IdsOn(num_nodes - 1) :
          pkg = [pc |-> "start", rank |-> r,
                 R_send |-> NewLedger, orig_nodes |-> << >>,
                 G_recv |-> NewLedger, G_send |-> NewLedger,
                 S_recv |-> NewLedger, S_send |-> NewLedger,
                 overrun |-> FALSE]

\* form_local_R_par_comm, lines 489-509: the send ledger from the messages of
\* the local processes, each a list of off-host ids with their hosts
PkgFormR ==
    /\ pkg.pc = "start"
    /\ \E msgs \in Arrivals(IdsOn(NodeOf(pkg.rank)), IdsOff(NodeOf(pkg.rank)),
                            MaxPkgMsgs) :
          LET R == finalize(AddAll(NewLedger, msgs, 1))
          IN  pkg' = [pkg EXCEPT !.pc = "R", !.R_send = R,
                                 !.orig_nodes = orig_nodes_of(R.indices)]
    /\ UNCHANGED pkgFrame

\* The recv_procs discovery can leave a process of host h with: a process
\* of every other host, in the order their notes arrived, and one more on a
\* host already in the list when the process claimed two slots of that host
\* (a fan-out above PPN)
RecvProcLists(h) ==
    {s \in UNION {[1 .. n -> IdsOff(h)] : n \in {num_nodes - 1, num_nodes}} :
        \A g \in Hosts \ {h} : \E i \in DOMAIN s : NodeOf(s[i]) = g}

\* form_global_par_comm, lines 532-631: the recv ledger from the R send
\* ledger and recv_procs; the send ledger takes the lists of the
\* send_procs, in their order
PkgFormGlobal ==
    /\ pkg.pc = "R"
    /\ \E recv_procs \in RecvProcLists(NodeOf(pkg.rank)),
          msgs \in Arrivals(IdsOff(NodeOf(pkg.rank)), IdsOn(NodeOf(pkg.rank)),
                            MaxPkgMsgs) :
          pkg' = [pkg EXCEPT
                    !.pc = "global",
                    !.G_recv = finalize(global_recv_data(pkg.R_send, pkg.orig_nodes,
                                                         recv_procs, Len(recv_procs))),
                    !.G_send = finalize(AddAll(NewLedger, msgs, 1)),
                    !.overrun = node_recv_overrun(pkg.R_send, pkg.orig_nodes,
                                                  recv_procs)]
    /\ UNCHANGED pkgFrame

\* The write past the end of node_recv_indices is undefined behaviour: the
\* construction goes on as if the vector had been large enough, or the
\* process is aborted.
PkgAbort ==
    /\ pkg.pc \in {"global", "S", "adjusted"}
    /\ pkg.overrun
    /\ pkg' = [pkg EXCEPT !.pc = "aborted"]
    /\ UNCHANGED pkgFrame

\* form_local_S_par_comm(first_local_col), lines 645-767
PkgFormS ==
    /\ pkg.pc = "global"
    /\ \E msgs \in Arrivals(IdsOn(NodeOf(pkg.rank)), {pkg.rank}, MaxPkgMsgs) :
          LET local_col_starts == [l \in 1 .. PPN |-> ProcOn(NodeOf(pkg.rank), l - 1)]
          IN  pkg' = [pkg EXCEPT
                    !.pc = "S",
                    !.S_recv = finalize(local_S_recv_data(pkg.G_send,
                                                          local_col_starts, PPN)),
                    !.S_send = finalize(AddAll(NewLedger, msgs, 1))]
    /\ UNCHANGED pkgFrame

\* adjust_send_indices(first_local_row) with the first row of the caller
PkgAdjust ==
    /\ pkg.pc = "S"
    /\ pkg' = [adjust_send_indices(pkg, pkg.rank) EXCEPT !.pc = "adjusted"]
    /\ UNCHANGED pkgFrame

PkgNext == PkgFormR \/ PkgFormGlobal \/ PkgFormS \/ PkgAdjust \/ PkgAbort

SpecAdjust == PkgInit /\ [][PkgNext]_vars

PkgLedgers(p) == <<p.R_send, p.G_recv, p.G_send, p.S_recv, p.S_send>>

\* C12 as stated: once a ledger is finalized, no later step changes its
\* partner list, its prefix offsets or its index array.
C12_ReadOnlyAfterFinalize ==
    [][\A n \in 1 .. 5 :
          PkgLedgers(pkg)[n].finalized =>
              /\ PkgLedgers(pkg')[n].procs = PkgLedgers(pkg)[n].procs
              /\ PkgLedgers(pkg')[n].indptr = PkgLedgers(pkg)[n].indptr
              /\ PkgLedgers(pkg')[n].indices = PkgLedgers(pkg)[n].indices]_vars

\* The position k (0-based) holds id in the index array
HoldsAt(indices, k, id) == k + 1 \in 1 .. Len(indices) /\ indices[k + 1] = id

\* C12, amended: once a ledger is finalized, no later step changes its
\* partner list or its prefix offsets, and none changes the index array of a
\* recv ledger; adjust_send_indices rewrites the index arrays of the S send,
\* global send and R send ledgers in place: an S send entry loses
\* first_local_row, a global send entry becomes the position of its id in the
\* S recv index array, an R send entry the position of its id in the global
\* recv index array.
C12_OnlySendIndicesRewritten ==
    [][/\ \A n \in 1 .. 5 :
             PkgLedgers(pkg)[n].finalized =>
                 /\ PkgLedgers(pkg')[n].procs = PkgLedgers(pkg)[n].procs
                 /\ PkgLedgers(pkg')[n].indptr = PkgLedgers(pkg)[n].indptr
                 /\ Len(PkgLedgers(pkg')[n].indices) = Len(PkgLedgers(pkg)[n].indices)
       /\ pkg.G_recv.finalized => pkg'.G_recv.indices = pkg.G_recv.indices
       /\ pkg.S_recv.finalized => pkg'.S_recv.indices = pkg.S_recv.indices
       /\ pkg.pc = "S" /\ pkg'.pc = "adjusted" =>
             /\ \A i \in 1 .. Len(pkg.S_send.indices) :
                   pkg'.S_send.indices[i] = pkg.S_send.indices[i] - pkg.rank
             /\ \A i \in 1 .. Len(pkg.G_send.indices) :
                   HoldsAt(pkg.S_recv.indices, pkg'.G_send.indices[i],
                           pkg.G_send.indices[i])
             /\ \A i \in 1 .. Len(pkg.R_send.indices) :
                   HoldsAt(pkg.G_recv.indices, pkg'.R_send.indices[i],
                           pkg.R_send.indices[i])]_vars

\* A process whose three send ledgers hold ids has rewritten them, and two
\* R send entries of one id point at one position of the global recv array
C12_Witness ==
    /\ pkg.pc = "adjusted"
    /\ pkg.rank > 0
    /\ Len(pkg.S_send.indices) > 0
    /\ \E i \in 1 .. Len(pkg.G_send.indices) : pkg.G_send.indices[i] > 0
    /\ Len(pkg.S_recv.procs) > 1
    /\ Len(pkg.G_recv.indices) > 1
    /\ \E i, j \in 1 .. Len(pkg.R_send.indices) :
          i # j /\ pkg.R_send.indices[i] = pkg.R_send.indices[j]
                /\ pkg.R_send.indices[i] > 0


\* ------------------------------------------------------------------------
\* gather_off_node_nodes on groups of more hosts than one bitmap word holds
\* ------------------------------------------------------------------------
\* most hosts, most off-host columns of the processes of the host together
MaxBitmapNodes == 5
MaxBitmapVol == 2

\* The off_node_col_to_node lists of the processes of host `own`, of at most
\* maxvol columns together
HostColumnListsUpTo(own, nn, ppn, maxvol) ==
    {c \in [LocalProcs(ppn) -> SortedLists((0 .. nn - 1) \ {own}, maxvol)] :
        TotalLen(c, ppn - 1) <= maxvol}

BitmapInit ==
    /\ rank_ordering = 1
    /\ PPN = 2
    /\ num_nodes \in 1 .. MaxBitmapNodes
    /\ CutoffsIdle
    /\ topo = TopoIdle
    /\ disc = DiscIdle
    /\ prev = PrevNone
    /\ cover = CoverIdle
    /\ ledger = LedgerIdle
    /\ pkg = PkgIdle
    /\ exch = ExchIdle
    /\ tap = TapIdle
    /\ local_stage = StageOff
    /\ \E own \in 0 .. num_nodes - 1 :
         \E c \in HostColumnListsUpTo(own, num_nodes, PPN, MaxBitmapVol) :
            gather = [pc |-> "mark", rank_node |-> own,
                      off_node_col_to_node |-> c,
                      tmp_recv_nodes |-> << >>, node_sizes |-> << >>,
                      nodal_recv_nodes |-> << >>, recv_nodes |-> << >>,
                      nodal_off_node_sizes |-> << >>, p |-> << >>,
                      nodal_num_local |-> << >>]

SpecBitmap == BitmapInit /\ [][GatherNext]_vars

\* The hosts occurring in off_node_col_to_node on some process of the host
HostsNeededOnHost ==
    UNION {Range(gather.off_node_col_to_node[l]) : l \in LocalProcs(PPN)}

\* C19: the host list returned by gather_off_node_nodes equals, as a set,
\* the union over the processes of the host of the hosts in their
\* off_node_col_to_node, and holds no host twice, for every num_nodes (a
\* multiple of the bitmap word width or not); it is empty exactly when no
\* process of the host has an off-host column.
C19_HostListIsUnion ==
    GatherDone =>
        /\ Range(gather.recv_nodes) = HostsNeededOnHost
        /\ NoDuplicates(gather.recv_nodes)
        /\ (gather.recv_nodes = << >>) <=>
               (\A l \in LocalProcs(PPN) : gather.off_node_col_to_node[l] = << >>)

\* Five hosts fill a second bitmap word in part: a host of the first word
\* and the host of the second are needed, by different processes
C19_Witness ==
    /\ GatherDone
    /\ num_nodes = 5
    /\ Range(gather.recv_nodes) = {1, 4}
    /\ gather.off_node_col_to_node[0] # gather.off_node_col_to_node[1]
    /\ gather.off_node_col_to_node[0] # << >>
    /\ gather.off_node_col_to_node[1] # << >>

\* C20: the host list returned by gather_off_node_nodes is ordered by
\* non-increasing aggregate volume, and hosts of equal volume keep their
\* bitmap-decode order (ascending host id).
C20_SortedByVolumeStable ==
    GatherDone =>
        \A i, j \in 1 .. Len(gather.recv_nodes) :
            i < j =>
                \/ VolumeAt(i) > VolumeAt(j)
                \/ VolumeAt(i) = VolumeAt(j)
                   /\ gather.recv_nodes[i] < gather.recv_nodes[j]


\* ------------------------------------------------------------------------
\* The index-list exchange of form_global_par_comm (tag 5432)
\* ------------------------------------------------------------------------
\* most off-host columns of one process, and of the whole group
MaxExchCols == 2
MaxExchVol == 3

\* The process groups <<rank_ordering, PPN, num_nodes>> of the exchange
ExchShapes == {<<0, 2, 2>>, <<1, 2, 2>>, <<1, 1, 3>>}

\* The off_node_col_to_node lists of all processes, from process r on, of
\* at most `budget` columns together
RECURSIVE ExchColumnLists(_, _)
ExchColumnLists(r, budget) ==
    IF r >= PPN * num_nodes THEN {<< >>}
    ELSE UNION {{<<c>> \o rest : rest \in ExchColumnLists(r + 1, budget - Len(c))} :
                c \in SortedLists(Hosts \ {NodeOf(r)}, Min(MaxExchCols, budget))}

\* The columns of host g needed on host h by the lists cols (cols[r + 1] is
\* the list of process r)
ExchVolRow(cols, h) ==
    [g \in Hosts |->
        SumOver([r \in IdsOn(h) |-> Count(cols[r + 1], g, 1)], IdsOn(h))]

\* node_sizes of form_global_par_comm on process r (lines 555-559): the
\* number of columns of host g among those the R stage routed to r, each
\* process of the host dealing its own columns over the fan-out slots of g
\* (lines 402-427)
node_sizes_routed(cols, in, r, g) ==
    LET h == NodeOf(r)
        routed(s) == off_node_col_to_lcl_proc(cols[s + 1], in[h].recv_nodes,
                                              in[h].nodal_num_local, PPN)
        from(s) == Cardinality({i \in 1 .. Len(cols[s + 1]) :
                                   cols[s + 1][i] = g /\ routed(s)[i] = LocalRankOf(r)})
    IN  SumOver([s \in IdsOn(h) |-> from(s)], IdsOn(h))

\* if (size), line 588: recv process proc gets an index list from r only when
\* columns of its host were routed to r
size_nonzero(cols, in, r, proc) == node_sizes_routed(cols, in, r, NodeOf(proc)) > 0

\* The recv processes r sends an index list to (lines 581-613), from entry k
RECURSIVE global_recv_partners(_, _, _, _, _)
global_recv_partners(cols, in, r, recv_procs, k) ==
    IF k > Len(recv_procs) THEN << >>
    ELSE (IF size_nonzero(cols, in, r, recv_procs[k]) THEN <<recv_procs[k]>> ELSE << >>)
         \o global_recv_partners(cols, in, r, recv_procs, k + 1)

\* The column ids of the off-node columns of process s: host g owns the
\* columns g * MaxCols, g * MaxCols + 1, ...
exch_column_map(cols, s) == off_proc_column_map_of(cols[s + 1])

\* The tag-6543 messages of the processes of the host of r to r, by
\* ascending local rank from l on (lines 464-487): the column ids local
\* process l routes to r, and their hosts.  The order of arrival leaves the
\* global recv ledger as it is, every range of which is sorted.
RECURSIVE exch_R_send(_, _, _, _)
exch_R_send(cols, in, r, l) ==
    IF l >= PPN THEN [indices |-> << >>, orig_nodes |-> << >>]
    ELSE LET h      == NodeOf(r)
             s      == ProcOn(h, l)
             routed == off_node_col_to_lcl_proc(cols[s + 1], in[h].recv_nodes,
                                                in[h].nodal_num_local, PPN)
             mine   == SelectSeq([i \in 1 .. Len(routed) |-> i],
                                 LAMBDA i : routed[i] = LocalRankOf(r))
             rest   == exch_R_send(cols, in, r, l + 1)
         IN  [indices |-> [k \in 1 .. Len(mine) |-> exch_column_map(cols, s)[mine[k]]]
                          \o rest.indices,
              orig_nodes |-> [k \in 1 .. Len(mine) |-> cols[s + 1][mine[k]]]
                             \o rest.orig_nodes]

\* recv_data of the global stage on process r (lines 553-603)
exch_G_recv(cols, in, r, recv_procs) ==
    LET R == exch_R_send(cols, in, r, 0)
    IN  finalize(global_recv_data(R, R.orig_nodes, recv_procs, Len(recv_procs)))

\* A send of the whole index array whatever the partner
exch_list_whole(G_recv, r, k) == G_recv.indices

\* The index list of the k-th message of the global recv ledger G_recv that
\* is addressed to r (lines 606-613; messages of one sender arrive in the
\* order they were sent)
exch_list(G_recv, r, k) ==
    LET at == SelectSeq([i \in 1 .. Len(G_recv.procs) |-> i],
                        LAMBDA i : G_recv.procs[i] = r)
    IN  ReadSlice(G_recv, at[k] - 1)

ExchInit ==
    /\ \E shape \in ExchShapes :
          rank_ordering = shape[1] /\ PPN = shape[2] /\ num_nodes = shape[3]
    /\ CutoffsIdle
    /\ topo = TopoIdle
    /\ gather = GatherIdle
    /\ cover = CoverIdle
    /\ ledger = LedgerIdle
    /\ pkg = PkgIdle
    /\ tap = TapIdle
    /\ local_stage = StageOff
    /\ prev = PrevNone
    /\ \E cols \in ExchColumnLists(0, MaxExchVol) :
         \E eager \in 1 .. MaxCutoff, short \in 1 .. MaxCutoff,
            ideal \in 1 .. Min(MaxIdeal, PPN) :
            LET results == [h \in Hosts |->
                              GatherResults(ExchVolRow(cols, h), num_nodes, PPN,
                                            eager, short, ideal)]
            IN  \E in \in [Hosts -> UNION Range(results)] :
                   /\ \A h \in Hosts : in[h] \in results[h]
                   /\ disc = DiscStart(in)
                   /\ exch = [pc |-> [r \in Procs |-> "start"],
                              cols |-> cols,
                              net |-> NoMessages,
                              sent |-> NoMessages,
                              n_recvd |-> [r \in Procs |-> 0],
                              G_recv |-> [r \in Procs |-> NewLedger],
                              G_send |-> [r \in Procs |-> NewLedger]]

\* lines 553-613 on process r, once find_global_comm_procs has returned:
\* one MPI_Isend of an index list to every recv process that has columns
ExchSend(r) ==
    /\ exch.pc[r] = "start"
    /\ disc.pc[r] = "done"
    /\ LET to == global_recv_partners(exch.cols, disc.in, r, disc.recv_procs[r], 1)
       IN  exch' = [exch EXCEPT
                      !.pc[r] = IF Len(disc.send_procs[r]) = 0 THEN "done" ELSE "recv",
                      !.net = PutAll(@, r, to, 1),
                      !.sent = PutAll(@, r, to, 1),
                      !.G_recv[r] = exch_G_recv(exch.cols, disc.in, r, disc.recv_procs[r]),
                      !.G_send[r] = IF Len(disc.send_procs[r]) = 0
                                    THEN finalize(@) ELSE @]
    /\ UNCHANGED exchFrame

\* lines 615-623: the blocking MPI_Probe(proc, 5432) on the next send process
\* returns when its index list has arrived; MPI_Recv takes it
ExchRecv(r) ==
    /\ exch.pc[r] = "recv"
    /\ LET proc == disc.send_procs[r][exch.n_recvd[r] + 1]
       IN  /\ InFlight(exch.net, proc, r) > 0
           /\ LET recvbuf == exch_list(exch.G_recv[proc], r,
                                        Count(exch.G_send[r].procs, proc, 1) + 1)
                  last    == exch.n_recvd[r] + 1 = Len(disc.send_procs[r])
              IN  exch' = [exch EXCEPT
                         !.net = Take(@, proc, r),
                         !.n_recvd[r] = @ + 1,
                         !.G_send[r] = IF last THEN finalize(add_msg(@, proc, recvbuf))
                                       ELSE add_msg(@, proc, recvbuf),
                         !.pc[r] = IF last THEN "done" ELSE "recv"]
    /\ UNCHANGED exchFrame

ExchProgress == \E r \in Procs : ExchSend(r) \/ ExchRecv(r)

ExchNext == DiscProgress \/ ExchProgress

SpecExchange == ExchInit /\ [][ExchNext]_vars

\* C17: in the index exchange of form_global_par_comm, every process q in the
\* send-peer list of a process p sends p exactly one index list (tag 5432),
\* whatever the distribution of the off-host columns over the processes of a
\* host and whatever the fan-out, fan-out slots without a column included.
C17_EveryPeerSendsOneList ==
    \A p, q \in Procs :
        /\ disc.pc[p] = "done"
        /\ exch.pc[q] \in {"recv", "done"}
        /\ \E i \in 1 .. Len(disc.send_procs[p]) : disc.send_procs[p][i] = q
        => InFlight(exch.sent, q, p) = 1

\* ------------------------------------------------------------------------
\* The package of the block-vector test on every process, and products
\* through it (test_bv_tap_spmv_rectangular_tiny.cpp)
\* ------------------------------------------------------------------------
vecs_in_block == 3
MaxJunk == 1

\* The process groups <<rank_ordering, PPN, num_nodes>> of the test: eight
\* processes, PPN = 4, under every supported rank layout.  Every host needs
\* more columns than eager_cutoff, so short_cutoff plays no part.
FixShapes == {<<0, 4, 2>>, <<1, 4, 2>>, <<2, 4, 2>>}

\* on_col_map and off_col_map of rank r (test lines 36-253)
on_col_map(r) ==
    << << >>, <<0>>, <<1>>, << >>, <<2>>, <<3>>, <<4>>, <<5>> >>[r + 1]
off_col_map(r) ==
    << <<4, 5>>, <<2, 3, 5>>, <<0, 3, 5>>, <<4>>,
       <<0, 5>>, <<2>>, <<1, 2>>, <<0, 1, 3>> >>[r + 1]

\* The entries <<local row, global column>> rank r adds, each of value 1.0
\* (test lines 271-321)
add_value(r) ==
    << {<<0, 4>>, <<0, 5>>, <<1, 5>>},
       {<<0, 5>>, <<1, 0>>, <<1, 2>>, <<2, 3>>},
       {<<0, 1>>, <<0, 5>>, <<1, 1>>, <<1, 3>>, <<2, 0>>},
       {<<0, 4>>},
       {<<0, 2>>, <<0, 5>>, <<1, 0>>},
       {<<0, 2>>, <<0, 3>>},
       {<<0, 1>>, <<0, 4>>, <<1, 2>>, <<1, 4>>},
       {<<0, 1>>, <<0, 3>>, <<1, 0>>, <<1, 3>>, <<1, 5>>} >>[r + 1]

\* first_local_col of rank r (test lines 258-265): the first column it owns,
\* 0 on a rank that owns none
first_local_col(r) == IF Len(on_col_map(r)) > 0 THEN on_col_map(r)[1] ELSE 0

\* The rank that owns global column c (off_proc_col_to_proc)
col_to_proc(c) == CHOOSE r \in Procs : c \in Range(on_col_map(r))

\* split_off_proc_cols on rank r
TapSplit(r) ==
    split_off_proc_cols(rank_ordering, num_nodes, PPN, r, off_col_map(r),
                        [i \in 1 .. Len(off_col_map(r)) |->
                            col_to_proc(off_col_map(r)[i])])

\* The columns of host g needed on host h
TapVolRow(h) ==
    [g \in Hosts |->
        SumOver([r \in IdsOn(h) |-> Count(TapSplit(r).off_node_col_to_node, g, 1)],
                IdsOn(h))]

\* The messages of S, each <<sender, ...>>, by ascending sender
RECURSIVE BySender(_)
BySender(S) ==
    IF S = {} THEN << >>
    ELSE LET m == CHOOSE x \in S : \A y \in S : x[1] <= y[1]
         IN  <<m>> \o BySender(S \ {m})

\* The orders in which the messages of S are taken off MPI_ANY_SOURCE: the
\* model has them arrive by ascending or by descending sender
Orders(S) ==
    {BySender(S), [k \in 1 .. Cardinality(S) |-> BySender(S)[Cardinality(S) + 1 - k]]}

\* The processes that probe process t in find_global_comm_procs (lines
\* 253-266) when gather_off_node_nodes returned in[h] on host h
TapProbers(in, t) ==
    {r \in Procs :
        LET slots == EveryPPNth(SlotHosts(in[NodeOf(r)].recv_nodes,
                                          in[NodeOf(r)].nodal_num_local, 1),
                                LocalRankOf(r), PPN)
        IN  \E k \in 1 .. Len(slots) :
               get_global_proc(rank_ordering, num_nodes, PPN, r, slots[k],
                               LocalRankOf(r)) = t}

\* send_procs of process p (lines 267-318): the probers of the processes of
\* its host, gathered in rank order and dealt out every PPN entries.  With
\* two hosts a process has at most one prober.
TapSendProcs(in, p) ==
    LET F[l \in 0 .. PPN] ==
            IF l = 0 THEN << >>
            ELSE F[l - 1] \o SortedUnique(TapProbers(in, ProcOn(NodeOf(p), l - 1)))
    IN  EveryPPNth(F[PPN], LocalRankOf(p), PPN)

TapInit ==
    /\ \E shape \in FixShapes :
          rank_ordering = shape[1] /\ PPN = shape[2] /\ num_nodes = shape[3]
    /\ eager_cutoff \in 1 .. MaxCutoff
    /\ short_cutoff = eager_cutoff
    /\ ideal_n_comm \in 1 .. MaxIdeal
    /\ topo = TopoIdle
    /\ gather = GatherIdle
    /\ disc = DiscIdle
    /\ prev = PrevNone
    /\ cover = CoverIdle
    /\ ledger = LedgerIdle
    /\ pkg = PkgIdle
    /\ exch = ExchIdle
    /\ local_stage = StageOff
    /\ tap = [pc |-> "gather", at |-> 0,
              in |-> << >>, send_procs |-> << >>, recv_procs |-> << >>,
              orig_nodes |-> [p \in Procs |-> << >>],
              R_recv |-> [p \in Procs |-> NewLedger],
              R_send |-> [p \in Procs |-> NewLedger],
              G_recv |-> [p \in Procs |-> NewLedger],
              G_send |-> [p \in Procs |-> NewLedger],
              S_recv |-> [p \in Procs |-> NewLedger],
              S_send |-> [p \in Procs |-> NewLedger],
              L_recv |-> [p \in Procs |-> NewLedger],
              L_send |-> [p \in Procs |-> NewLedger],
              run |-> 0, j |-> 0, sc |-> << >>, junk |-> << >>,
              S_buf |-> << >>, L_buf |-> << >>, G_buf |-> << >>,
              single |-> << >>, block |-> << >>]

\* A stage of the construction is run by the processes one after the other,
\* in rank order: `at` is the process whose turn it is
TapAdvance(t, next) ==
    IF t.at + 1 < PPN * num_nodes THEN [t EXCEPT !.at = @ + 1]
    ELSE [t EXCEPT !.at = 0, !.pc = next]

\* gather_off_node_nodes on every host
TapGather ==
    /\ tap.pc = "gather"
    /\ LET results == [h \in Hosts |->
                          GatherResults(TapVolRow(h), num_nodes, PPN,
                                        eager_cutoff, short_cutoff, ideal_n_comm)]
       IN  \E in \in [Hosts -> UNION Range(results)] :
              /\ \A h \in Hosts : in[h] \in results[h]
              /\ tap' = [tap EXCEPT !.pc = "discover", !.in = in]
    /\ UNCHANGED tapFrame

\* find_global_comm_procs on every process: recv_procs are the processes
\* that note the caller (lines 320-345), at most one with two hosts
TapDiscover ==
    /\ tap.pc = "discover"
    /\ LET send_procs == [p \in Procs |-> TapSendProcs(tap.in, p)]
       IN  tap' = [tap EXCEPT
                     !.pc = "R",
                     !.send_procs = send_procs,
                     !.recv_procs =
                         [q \in Procs |->
                             SortedUnique({p \in Procs : q \in Range(send_procs[p])})]]
    /\ UNCHANGED tapFrame

\* recv_data of the R stage on process p
TapRRecv(p) ==
    R_recv_data(TapSplit(p).off_node_col_to_node, tap.in[NodeOf(p)].recv_nodes,
                tap.in[NodeOf(p)].nodal_num_local, PPN)

\* The messages <<sender, positions>> that the recv ledgers `recv` of the
\* processes of the host of q address to q (a ledger of a local stage names
\* its partners by their local rank)
LocalMsgs(recv, q) ==
    {<<LocalRankOf(pi[1]), ReadSlice(recv[pi[1]], pi[2] - 1)>> :
     pi \in {pi \in IdsOn(NodeOf(q)) \X (1 .. PPN) :
                /\ pi[2] <= Len(recv[pi[1]].procs)
                /\ recv[pi[1]].procs[pi[2]] = LocalRankOf(q)}}

\* The tag-6543 messages <<sender, columns, hosts>> sent to process q (lines
\* 464-487)
TapRMsgs(q) ==
    {LET sp == TapSplit(ProcOn(NodeOf(q), m[1]))
     IN  <<m[1],
           [k \in 1 .. Len(m[2]) |-> sp.off_node_column_map[m[2][k] + 1]],
           [k \in 1 .. Len(m[2]) |-> sp.off_node_col_to_node[m[2][k] + 1]]>> :
     m \in LocalMsgs([p \in Procs |-> TapRRecv(p)], q)}

\* The concatenation of the third components of msgs, from message i
RECURSIVE HostsOfMsgs(_, _)
HostsOfMsgs(msgs, i) ==
    IF i > Len(msgs) THEN << >> ELSE msgs[i][3] \o HostsOfMsgs(msgs, i + 1)

\* form_local_R_par_comm on process tap.at: the messages are added in the
\* order they arrive (MPI_ANY_SOURCE, line 492)
TapFormR ==
    /\ tap.pc = "R"
    /\ \E msgs \in Orders(TapRMsgs(tap.at)) :
          tap' = TapAdvance([tap EXCEPT
                               !.R_recv[tap.at] = TapRRecv(tap.at),
                               !.R_send[tap.at] = finalize(AddAll(NewLedger, msgs, 1)),
                               !.orig_nodes[tap.at] = HostsOfMsgs(msgs, 1)],
                            "global")
    /\ UNCHANGED tapFrame

\* recv_data of the global stage on process p
TapGRecv(p) ==
    finalize(global_recv_data(tap.R_send[p], tap.orig_nodes[p], tap.recv_procs[p],
                              Len(tap.recv_procs[p])))

\* The tag-5432 message process s sends process q: the slice of its global
\* recv ledger for q, << >> if it has none (lines 606-613)
TapGMsg(s, q) ==
    LET at == {i \in 1 .. Len(TapGRecv(s).procs) : TapGRecv(s).procs[i] = q}
    IN  IF at = {} THEN << >> ELSE ReadSlice(TapGRecv(s), (CHOOSE i \in at : TRUE) - 1)

\* form_global_par_comm on process tap.at.  MPI_Probe(proc, 5432) of line
\* 618 blocks until the message of every entry of send_procs is there.
TapFormGlobal ==
    /\ tap.pc = "global"
    /\ LET send_procs == tap.send_procs[tap.at]
       IN  /\ \A k \in 1 .. Len(send_procs) : TapGMsg(send_procs[k], tap.at) # << >>
           /\ tap' = TapAdvance(
                  [tap EXCEPT
                     !.G_recv[tap.at] = TapGRecv(tap.at),
                     !.G_send[tap.at] =
                         finalize(AddAll(NewLedger,
                                         [k \in 1 .. Len(send_procs) |->
                                             <<send_procs[k],
                                               TapGMsg(send_procs[k], tap.at)>>], 1))],
                  "S")
    /\ UNCHANGED tapFrame

\* recv_data of the S stage on process p: local_col_starts is the
\* first_local_col of the processes of the host (line 676)
TapSRecv(p) ==
    finalize(local_S_recv_data(tap.G_send[p],
                               [l \in 1 .. PPN |-> first_local_col(ProcOn(NodeOf(p), l - 1))],
                               PPN))

\* form_local_S_par_comm(first_local_col) on process tap.at
TapFormS ==
    /\ tap.pc = "S"
    /\ \E msgs \in Orders(LocalMsgs([p \in Procs |-> TapSRecv(p)], tap.at)) :
          tap' = TapAdvance([tap EXCEPT
                               !.S_recv[tap.at] = TapSRecv(tap.at),
                               !.S_send[tap.at] = finalize(AddAll(NewLedger, msgs, 1))],
                            "adjust")
    /\ UNCHANGED tapFrame

\* adjust_send_indices on process tap.at, called with its first_local_col
TapAdjust ==
    /\ tap.pc = "adjust"
    /\ LET p == adjust_send_indices([S_send |-> tap.S_send[tap.at],
                                     S_recv |-> tap.S_recv[tap.at],
                                     G_send |-> tap.G_send[tap.at],
                                     G_recv |-> tap.G_recv[tap.at],
                                     R_send |-> tap.R_send[tap.at]],
                                    first_local_col(tap.at))
       IN  tap' = TapAdvance([tap EXCEPT !.S_send[tap.at] = p.S_send,
                                         !.G_send[tap.at] = p.G_send,
                                         !.R_send[tap.at] = p.R_send],
                             "L")
    /\ UNCHANGED tapFrame

\* recv_data of the L stage on process p
TapLRecv(p) == L_recv_data(TapSplit(p).on_node_col_to_proc)

\* The tag-7890 messages <<sender, columns>> sent to process q (lines
\* 873-879), each column less the first_local_col of q (line 888-891)
TapLMsgs(q) ==
    {<<m[1], [k \in 1 .. Len(m[2]) |->
                 TapSplit(ProcOn(NodeOf(q), m[1])).on_node_column_map[m[2][k] + 1]
                 - first_local_col(q)]>> :
     m \in LocalMsgs([p \in Procs |-> TapLRecv(p)], q)}

\* form_local_L_par_comm on process tap.at
TapFormL ==
    /\ tap.pc = "L"
    /\ \E msgs \in Orders(TapLMsgs(tap.at)) :
          tap' = TapAdvance([tap EXCEPT
                               !.L_recv[tap.at] = TapLRecv(tap.at),
                               !.L_send[tap.at] = finalize(AddAll(NewLedger, msgs, 1))],
                            "built")
    /\ UNCHANGED tapFrame

\* The local part of the vector on process p: the entries of column m of the
\* block are m * rank (test lines 352-362); sc lists the columns multiplied
x_local(p, sc) ==
    [i \in 1 .. Len(on_col_map(p)) |-> [m \in 1 .. Len(sc) |-> sc[m] * p]]

\* values[idx]: a read outside the array is undefined and yields junk
ReadAt(values, idx, junk) ==
    IF idx \in 0 .. Len(values) - 1 THEN values[idx + 1] ELSE junk

\* One stage of a product: the buffer every process receives when every
\* process packs the entries of src at the indices of its send ledger and
\* sends each partner its slice.  A ledger of a local stage names its
\* partners by their local rank.
Exchange(send, recv, src, local, junk) ==
    [d \in Procs |->
        [k \in 1 .. Len(recv[d].indices) |->
            LET i == CHOOSE i \in 1 .. Len(recv[d].procs) :
                         recv[d].indptr[i] < k /\ k <= recv[d].indptr[i + 1]
                s == IF local THEN ProcOn(NodeOf(d), recv[d].procs[i])
                     ELSE recv[d].procs[i]
                j == CHOOSE j \in 1 .. Len(send[s].procs) :
                         send[s].procs[j] = (IF local THEN LocalRankOf(d) ELSE d)
            IN  ReadAt(src[s],
                       send[s].indices[send[s].indptr[j] + (k - recv[d].indptr[i])],
                       junk)]]

\* The entry of buffer buf that recv ledger l stores at position n of the
\* list it indexes
Stored(l, buf, n, junk) ==
    LET at == {m \in 1 .. Len(l.indices) : l.indices[m] = n}
    IN  IF at = {} THEN junk ELSE buf[CHOOSE m \in at : TRUE]

\* The values of its off-process columns every process holds after a
\* product: the entry of column i comes out of the R buffer if the column is
\* off-node and out of the L buffer if it is on-node
off_proc_values(R, L, junk) ==
    [p \in Procs |->
        [i \in 1 .. Len(off_col_map(p)) |->
            LET sp  == TapSplit(p)
                off == {n \in 1 .. Len(sp.off_node_to_off_proc) :
                           sp.off_node_to_off_proc[n] = i - 1}
                on  == {n \in 1 .. Len(sp.on_node_to_off_proc) :
                           sp.on_node_to_off_proc[n] = i - 1}
            IN  IF off # {}
                THEN Stored(tap.R_recv[p], R[p], (CHOOSE n \in off : TRUE) - 1, junk)
                ELSE Stored(tap.L_recv[p], L[p], (CHOOSE n \in on : TRUE) - 1, junk)]]

\* The values a direct exchange delivers: every column from its owner
communicate_direct(sc) ==
    [p \in Procs |->
        [i \in 1 .. Len(off_col_map(p)) |->
            [m \in 1 .. Len(sc) |-> sc[m] * col_to_proc(off_col_map(p)[i])]]]

\* The product of the local rows of every process with the vector, given the
\* values of its off-process columns
mult(sc, recvd) ==
    [p \in Procs |->
        [row \in {e[1] : e \in add_value(p)} |->
            [m \in 1 .. Len(sc) |->
                LET E == {e \in add_value(p) : e[1] = row}
                IN  SumOver([e \in E |->
                                IF col_to_proc(e[2]) = p
                                THEN x_local(p, sc)[e[2] - first_local_col(p) + 1][m]
                                ELSE recvd[p][CHOOSE i \in 1 .. Len(off_col_map(p)) :
                                                  off_col_map(p)[i] = e[2]][m]],
                            E)]]]

\* A product begins: tap_mult of column j of the block as a single vector
\* (test lines 368-370), then tap_mult of the block (line 372).  The L and
\* the S stage are exchanged; a read outside an array yields junk.
TapMultLS ==
    /\ tap.pc = "built"
    /\ \E j \in 1 .. vecs_in_block, g \in 0 .. MaxJunk :
          LET sc   == IF tap.run = 0 THEN <<j>> ELSE [m \in 1 .. vecs_in_block |-> m]
              junk == [m \in 1 .. Len(sc) |-> g]
              x    == [p \in Procs |-> x_local(p, sc)]
          IN  /\ tap.run = 0 \/ j = tap.j
              /\ tap' = [tap EXCEPT
                            !.pc = "S sent", !.j = j, !.sc = sc, !.junk = junk,
                            !.S_buf = Exchange(tap.S_send, tap.S_recv, x, TRUE, junk),
                            !.L_buf = Exchange(tap.L_send, tap.L_recv, x, TRUE, junk)]
    /\ UNCHANGED tapFrame

\* The S stage is complete: the global exchange out of the S buffers
TapMultGlobal ==
    /\ tap.pc = "S sent"
    /\ tap' = [tap EXCEPT
                  !.pc = "global sent",
                  !.G_buf = Exchange(tap.G_send, tap.G_recv, tap.S_buf, FALSE, tap.junk)]
    /\ UNCHANGED tapFrame

\* The global exchange is complete: the R stage out of the global buffers,
\* and the product of the local rows
TapMultR ==
    /\ tap.pc = "global sent"
    /\ LET R == Exchange(tap.R_send, tap.R_recv, tap.G_buf, TRUE, tap.junk)
           b == mult(tap.sc, off_proc_values(R, tap.L_buf, tap.junk))
       IN  tap' = [tap EXCEPT
                     !.pc = IF tap.run = 0 THEN "built" ELSE "done",
                     !.run = @ + 1,
                     !.single = IF tap.run = 0 THEN b ELSE @,
                     !.block = IF tap.run = 0 THEN @ ELSE b]
    /\ UNCHANGED tapFrame

TapNext ==
    \/ TapGather \/ TapDiscover \/ TapFormR \/ TapFormGlobal \/ TapFormS
    \/ TapAdjust \/ TapFormL \/ TapMultLS \/ TapMultGlobal \/ TapMultR

SpecFixture == TapInit /\ [][TapNext]_vars

\* C14 as stated: for the 8-process fixture, a product through the package
\* gives every process the result of the direct path, every off-process
\* column contributing the value of its owner.
C14_ProductEqualsDirectPath ==
    tap.run >= 1 => tap.single = mult(<<tap.j>>, communicate_direct(<<tap.j>>))

\* C15 as stated: tap_mult of the block vector produces in column j the
\* result of tap_mult of column j as a single vector.
C15_BlockColumnEqualsSingle ==
    tap.pc = "done"
        => \A p \in Procs : \A row \in DOMAIN tap.block[p] :
              tap.block[p][row][tap.j] = tap.single[p][row][1]

\* ------------------------------------------------------------------------
\* The stages of one product on every process (pipeline orchestrator)
\* ------------------------------------------------------------------------
\* The process groups <<rank_ordering, PPN, num_nodes>> of the pipeline
PipeShapes == {<<0, 2, 2>>, <<1, 2, 2>>}

\* The messages <<sender, receiver>> of a stage of the package: the L, S and
\* R stages stay on a host, the global stage goes between hosts.  A stage is
\* dense (every pair) or sparse (from the lower to the higher rank only).
StageMsgs(stage, dense) ==
    {m \in Procs \X Procs :
        /\ m[1] # m[2]
        /\ (NodeOf(m[1]) = NodeOf(m[2])) = (stage # "G")
        /\ dense \/ m[1] < m[2]}

PipeInit ==
    /\ \E shape \in PipeShapes :
          rank_ordering = shape[1] /\ PPN = shape[2] /\ num_nodes = shape[3]
    /\ CutoffsIdle
    /\ topo = TopoIdle
    /\ gather = GatherIdle
    /\ disc = DiscIdle
    /\ prev = PrevNone
    /\ cover = CoverIdle
    /\ ledger = LedgerIdle
    /\ pkg = PkgIdle
    /\ exch = ExchIdle
    /\ local_stage = StageOff
    /\ \E dense \in [{"L", "S", "G", "R"} -> BOOLEAN] :
          tap = [pc |-> "product",
                 msgs |-> [st \in {"L", "S", "G", "R"} |-> StageMsgs(st, dense[st])],
                 issued |-> [p \in Procs |-> {}],
                 completed |-> [p \in Procs |-> {}],
                 sent |-> {}]

\* A stage issued at once, whatever is still in flight
may_issue_at_once(p, stage) == TRUE

\* The stages process p has to have completed before it issues `stage`: the
\* global exchange follows the intra-host sends (L and S), the R stage
\* follows the global exchange
may_issue(p, stage) ==
    IF stage = "G" THEN {"L", "S"} \subseteq tap.completed[p]
    ELSE IF stage = "R" THEN "G" \in tap.completed[p]
    ELSE TRUE

\* Process p issues the non-blocking sends and receives of a stage
PipeIssue(p, stages) ==
    /\ tap.pc = "product"
    /\ stages \cap tap.issued[p] = {}
    /\ \A st \in stages : may_issue(p, st)
    /\ tap' = [tap EXCEPT
                  !.issued[p] = @ \cup stages,
                  !.sent = @ \cup {t \in stages \X Procs \X Procs :
                                      t[2] = p /\ <<t[2], t[3]>> \in tap.msgs[t[1]]}]
    /\ UNCHANGED tapFrame

\* The wait of process p on a stage returns: every message of the stage
\* addressed to p has been sent
PipeComplete(p, stage) ==
    /\ tap.pc = "product"
    /\ stage \in tap.issued[p] \ tap.completed[p]
    /\ \A m \in tap.msgs[stage] : m[2] = p => <<stage, m[1], p>> \in tap.sent
    /\ tap' = [tap EXCEPT !.completed[p] = @ \cup {stage}]
    /\ UNCHANGED tapFrame

\* pack and send the L-stage and S-stage messages
PipeIssueLS == \E p \in Procs : PipeIssue(p, {"L", "S"})

\* issue the global inter-host exchange
PipeIssueGlobal == \E p \in Procs : PipeIssue(p, {"G"})

\* issue the R-stage scatter
PipeIssueR == \E p \in Procs : PipeIssue(p, {"R"})

PipeWait == \E p \in Procs, stage \in {"L", "S", "G", "R"} : PipeComplete(p, stage)

PipeNext == PipeIssueLS \/ PipeIssueGlobal \/ PipeIssueR \/ PipeWait

SpecPipeline == PipeInit /\ [][PipeNext]_vars

\* The stages in flight on process p
InFlightStages(p) == tap.issued[p] \ tap.completed[p]

MaxHostList == 3
\* largest aggregate volume of one host tried
MaxHostVol == 3

\* The state at line 145: ctr hosts decoded in ascending order, each with
\* the volume summed over the host (at least 1, the host is needed by
\* somebody), every fan-out still 1.
SortInit ==
    /\ rank_ordering = 1
    /\ PPN \in 1 .. MaxPPN
    /\ CutoffsInit
    /\ topo = TopoIdle
    /\ disc = DiscIdle
    /\ prev = PrevNone
    /\ cover = CoverIdle
    /\ ledger = LedgerIdle
    /\ pkg = PkgIdle
    /\ exch = ExchIdle
    /\ tap = TapIdle
    /\ local_stage = StageOff
    /\ \E ctr \in 1 .. MaxHostList :
         /\ num_nodes = ctr + 1
         /\ \E sizes \in [1 .. ctr -> 1 .. MaxHostVol] :
              gather = [pc |-> "sort", rank_node |-> 0,
                        off_node_col_to_node |-> << >>,
                        tmp_recv_nodes |-> << >>, node_sizes |-> << >>,
                        nodal_recv_nodes |-> << >>,
                        recv_nodes |-> [i \in 1 .. ctr |-> i],
                        nodal_off_node_sizes |-> sizes, p |-> << >>,
                        nodal_num_local |-> [i \in 1 .. ctr |-> 1]]

SortNext ==
    \/ GatherSort
    \/ GatherFanOut
    \/ GatherReorder

SpecSort == SortInit /\ [][SortNext]_vars

\* C21: the in-place reorder leaves at every position i the host and the
\* fan-out that were at position p[i] before it, as a copy into a fresh
\* array in the order of p would.
C21_ReorderEqualsSortedCopy ==
    [][GatherReorder =>
          /\ Len(gather'.recv_nodes) = Len(gather.p)
          /\ Len(gather'.nodal_num_local) = Len(gather.p)
          /\ \A i \in 1 .. Len(gather.p) :
                /\ gather'.recv_nodes[i] = gather.recv_nodes[gather.p[i]]
                /\ gather'.nodal_num_local[i] = gather.nodal_num_local[gather.p[i]]]_vars

\* a reorder along a cycle of three positions that moved unequal fan-outs
C21_Witness ==
    /\ gather.pc = "done"
    /\ Len(gather.p) = 3
    /\ \A i \in 1 .. 3 : gather.p[i] # i
    /\ \E i, j \in 1 .. 3 : gather.nodal_num_local[i] # gather.nodal_num_local[j]

\* The threshold rule applied to one host on its own: the fan-out the tests
\* of lines 162-177 give, 1 when neither test holds.
RuleFanOut(size) ==
    LET n_procs == FanOutOf(size, Len(gather.p), PPN, eager_cutoff,
                            short_cutoff, ideal_n_comm)
    IN  IF n_procs = 0 THEN 1 ELSE n_procs

\* The sorted position at which the loop of lines 158-183 stopped
StopPosition ==
    LET fails == {i \in 1 .. Len(gather.p) :
                     FanOutOf(gather.nodal_off_node_sizes[gather.p[i]],
                              Len(gather.p), PPN, eager_cutoff, short_cutoff,
                              ideal_n_comm) = 0}
    IN  IF fails = {} THEN Len(gather.p) + 1
        ELSE CHOOSE i \in fails : \A j \in fails : i <= j

\* C22: the loop that stops at the first host failing both tests gives
\* every host the fan-out the rule gives it; every host at or after the
\* stopping position has fan-out 1 and fails both tests.
C22_BreakEqualsRuleOnEveryHost ==
    gather.pc = "reorder" =>
        /\ \A idx \in 1 .. Len(gather.p) :
              gather.nodal_num_local[idx] = RuleFanOut(gather.nodal_off_node_sizes[idx])
        /\ \A i \in StopPosition .. Len(gather.p) :
              /\ gather.nodal_num_local[gather.p[i]] = 1
              /\ FanOutOf(gather.nodal_off_node_sizes[gather.p[i]], Len(gather.p),
                          PPN, eager_cutoff, short_cutoff, ideal_n_comm) = 0

\* the loop stopped after one host with two unequal hosts still to go
C22_Witness ==
    /\ gather.pc = "reorder"
    /\ StopPosition = 2
    /\ Len(gather.p) = 3
    /\ gather.nodal_off_node_sizes[gather.p[2]] > gather.nodal_off_node_sizes[gather.p[3]]
    /\ gather.nodal_num_local[gather.p[1]] > 1

\* The probes local rank l of the host issues in find_global_comm_procs
\* (lines 253-266) on the lists gather_off_node_nodes has returned
ProbesOfLocalRank(l) ==
    EveryPPNth(SlotHosts(gather.recv_nodes, gather.nodal_num_local, 1), l, PPN)

\* C33: with every fan-out between 1 and PPN, no process of the host issues
\* more probes than the n_recv_nodes / PPN + 1 request handles it allocated
\* (line 250)
C33_ProbesFitRequestArray ==
    (gather.pc = "done"
        /\ \A i \in 1 .. Len(gather.nodal_num_local) :
              gather.nodal_num_local[i] \in 1 .. PPN) =>
    \A l \in LocalProcs(PPN) :
        Len(ProbesOfLocalRank(l)) <= (Len(gather.recv_nodes) \div PPN) + 1

\* The local ranks the R stage of host h routes the columns of the host at
\* index idx of its list to (lines 402-427): node_to_proc[idx] and the
\* nodal_num_local[idx] - 1 ranks after it, modulo PPN
RoutedRanks(h, idx) ==
    {(node_to_proc(disc.in[h].nodal_num_local, PPN)[idx] + k) % PPN :
        k \in 0 .. disc.in[h].nodal_num_local[idx] - 1}

\* The entries of the recv-peer list of r that lie on host g
RecvPeersOn(r, g) == {i \in DOMAIN disc.recv_procs[r] : NodeOf(disc.recv_procs[r][i]) = g}

\* C34: a process the R stage routes columns of host H to has, once
\* discovery has returned on it, exactly one recv peer on H
C34_RoutedRankHasOnePeerOnHost ==
    \A r \in Procs :
        disc.pc[r] = "done" =>
            \A idx \in 1 .. Len(disc.in[NodeOf(r)].recv_nodes) :
                LocalRankOf(r) \in RoutedRanks(NodeOf(r), idx) =>
                    Cardinality(RecvPeersOn(r, disc.in[NodeOf(r)].recv_nodes[idx])) = 1

\* Discovery has returned on every process
DiscAllDone == \A r \in Procs : disc.pc[r] = "done"

\* C35: when discovery has returned on every process, q is in the
\* send-peer list of p as many times as p is in the recv-peer list of q
C35_PeerRelationSymmetric ==
    DiscAllDone =>
        \A p, q \in Procs :
            Count(disc.send_procs[p], q, 1) = Count(disc.recv_procs[q], p, 1)

\* discovery has returned everywhere, a process has two send peers and a
\* process has two recv peers
C35_Witness ==
    /\ DiscAllDone
    /\ \E p \in Procs : Len(disc.send_procs[p]) = 2
    /\ \E q \in Procs : Len(disc.recv_procs[q]) = 2

\* The index lists of the messages of ledger l for partner q
ListsFor(l, q) == {m[2] : m \in {x \in MsgsOfLedger(l) : x[1] = q}}

\* C36: once form_global_par_comm has returned on p and on q, the global
\* send ledger of p has a message for q with index list I exactly if the
\* global recv ledger of q has a message for p with the list I
C36_GlobalStageSymmetric ==
    \A p, q \in Procs :
        (exch.pc[p] = "done" /\ exch.pc[q] = "done") =>
            ListsFor(exch.G_send[p], q) = ListsFor(exch.G_recv[q], p)

\* the global stage is built everywhere, a process receives two different
\* lists from two partners and its partners hold them in their send ledgers
C36_Witness ==
    /\ \A r \in Procs : exch.pc[r] = "done"
    /\ \E q \in Procs :
          /\ Len(exch.G_recv[q].procs) = 2
          /\ ReadSlice(exch.G_recv[q], 0) # ReadSlice(exch.G_recv[q], 1)
          /\ \A i \in 1 .. 2 : Len(exch.G_send[exch.G_recv[q].procs[i]].procs) >= 1

\* ------------------------------------------------------------------------
\* The positions adjust_send_indices leaves (lines 780-815)
\* ------------------------------------------------------------------------
\* Every entry of `after` is a position of `into` that holds the id the
\* entry had in `before`
PositionsOfIds(before, after, into) ==
    /\ Len(after) = Len(before)
    /\ \A i \in 1 .. Len(before) :
          /\ after[i] \in 0 .. Len(into) - 1
          /\ into[after[i] + 1] = before[i]

\* C31: adjust_send_indices leaves in the global send ledger positions of
\* the S recv index array that hold the ids the entries had before, and in
\* the R send ledger positions of the global recv index array that hold the
\* ids these entries had before
C31_RewrittenEntriesArePositions ==
    [][PkgAdjust =>
          /\ PositionsOfIds(pkg.G_send.indices, pkg'.G_send.indices, pkg.S_recv.indices)
          /\ PositionsOfIds(pkg.R_send.indices, pkg'.R_send.indices, pkg.G_recv.indices)]_vars

\* both ledgers were rewritten, each with an entry that is not the first
\* position
C31_Witness ==
    /\ pkg.pc = "adjusted"
    /\ Len(pkg.G_send.procs) >= 2
    /\ Len(pkg.R_send.procs) >= 2
    /\ \E i \in 1 .. Len(pkg.G_send.indices) : pkg.G_send.indices[i] > 0
    /\ \E i \in 1 .. Len(pkg.R_send.indices) : pkg.R_send.indices[i] > 0

\* ------------------------------------------------------------------------
\* The S and L stages among the processes of one host
\* (form_local_S_par_comm, lines 645-767; form_local_L_par_comm, lines
\* 833-897).  The processes are named by their rank in local_comm.
\* ------------------------------------------------------------------------
MaxStageCols == 2

\* The processes per host of the stage model, on two hosts
StagePPN == {2, 3}
LocalRanks == 0 .. PPN - 1

\* The ascending column lists a remote process can ask of the host, or none
StageLists == {<< >>} \cup IdLists(0 .. MaxStageCols - 1, MaxStageCols)

\* The global send ledger of a process whose remote partners ask for the
\* column lists of `lists` (the partners are processes of the other host)
RECURSIVE G_send_of(_, _)
G_send_of(lists, i) ==
    IF i = 0 THEN NewLedger
    ELSE IF Len(lists[i]) = 0 THEN G_send_of(lists, i - 1)
         ELSE add_msg(G_send_of(lists, i - 1), PPN + i - 1, lists[i])

StageIdle ==
    [local_col_starts |-> << >>,
     G_send |-> [l \in LocalRanks |-> NewLedger],
     S_recv |-> [l \in LocalRanks |-> NewLedger],
     S_send |-> [l \in LocalRanks |-> NewLedger],
     on_node_col_to_proc |-> [l \in LocalRanks |-> << >>],
     on_node_column_map |-> [l \in LocalRanks |-> << >>],
     first_local_row |-> [l \in LocalRanks |-> 0],
     L_recv |-> [l \in LocalRanks |-> NewLedger],
     L_send |-> [l \in LocalRanks |-> NewLedger]]

\* The host before form_local_S_par_comm: every process holds its global
\* send ledger and its first_local_col (the first process of the host owns
\* the first column of the host; the block-vector test hands over starts
\* that are not ascending, so every list of starts is drawn).  The first
\* process serves up to two remote partners, the last one up to one, the
\* processes in between none.
StageSInputs ==
    {[StageIdle EXCEPT
         !.local_col_starts = starts,
         !.G_send = [l \in LocalRanks |->
                        finalize(IF l = 0 THEN G_send_of(<<first, more>>, 2)
                                 ELSE IF l = PPN - 1 THEN G_send_of(<<last>>, 1)
                                 ELSE NewLedger)]] :
     starts \in {st \in [1 .. PPN -> 0 .. MaxStageCols] : st[1] = 0},
     first \in StageLists, more \in StageLists, last \in StageLists}

\* The host before form_local_L_par_comm: every process holds its on-node
\* columns, sorted by owner, of other processes of the host
StageLInputs ==
    {[StageIdle EXCEPT
         !.on_node_col_to_proc = owners,
         !.on_node_column_map = [l \in LocalRanks |-> off_proc_column_map_of(owners[l])],
         !.first_local_row = [l \in LocalRanks |-> l * MaxCols]] :
     owners \in {o \in [LocalRanks -> OwnerLists(LocalRanks, 0, MaxCols)] :
                    \A l \in LocalRanks : l \notin Range(o[l])}}

StageInit ==
    /\ rank_ordering = 1
    /\ PPN \in StagePPN
    /\ num_nodes = 2
    /\ CutoffsIdle
    /\ topo = TopoIdle
    /\ gather = GatherIdle
    /\ disc = DiscIdle
    /\ prev = PrevNone
    /\ cover = CoverIdle
    /\ ledger = LedgerIdle
    /\ pkg = PkgIdle
    /\ exch = ExchIdle
    /\ tap = TapIdle
    /\ \/ \E in \in StageSInputs : local_stage = [pc |-> "S", at |-> 0, st |-> in]
       \/ \E in \in StageLInputs : local_stage = [pc |-> "L", at |-> 0, st |-> in]

\* The next process of the host, or the end of the stage
StageAdvance(st, done) ==
    IF local_stage.at + 1 < PPN THEN [pc |-> local_stage.pc, at |-> local_stage.at + 1, st |-> st]
    ELSE [pc |-> done, at |-> 0, st |-> st]

\* The messages <<sender, entries>> that the finalized recv ledgers `recv`
\* of the processes of the host address to local rank q (the Isend loops,
\* lines 741-749 and 870-877)
StageMsgsTo(recv, q) ==
    {<<li[1], ReadSlice(recv[li[1]], li[2] - 1)>> :
     li \in {li \in LocalRanks \X (1 .. MaxStageCols + MaxCols) :
                /\ li[2] <= Len(recv[li[1]].procs)
                /\ recv[li[1]].procs[li[2]] = q}}

\* recv_data of the S stage on local rank l (lines 680-739)
StageSRecv(l) ==
    finalize(local_S_recv_data(local_stage.st.G_send[l], local_stage.st.local_col_starts, PPN))

\* form_local_S_par_comm on local rank local_stage.at: the recv ledger, and the
\* send ledger out of the tag-4321 messages in their order of arrival
\* (lines 751-762)
StageFormS ==
    /\ local_stage.pc = "S"
    /\ \E msgs \in Orders(StageMsgsTo([l \in LocalRanks |-> StageSRecv(l)], local_stage.at)) :
          local_stage' = StageAdvance([local_stage.st EXCEPT
                                  !.S_recv[local_stage.at] = StageSRecv(local_stage.at),
                                  !.S_send[local_stage.at] = finalize(AddAll(NewLedger, msgs, 1))],
                               "S_done")
    /\ UNCHANGED stageFrame

\* The tag-7890 messages <<sender, rows>> sent to local rank q: the on-node
\* columns of the sender's slice (lines 870-877), each less the
\* first_local_row of q (lines 886-889)
StageLMsgsTo(q) ==
    {<<m[1], [k \in 1 .. Len(m[2]) |->
                 local_stage.st.on_node_column_map[m[1]][m[2][k] + 1]
                 - local_stage.st.first_local_row[q]]>> :
     m \in StageMsgsTo([l \in LocalRanks |->
                           L_recv_data(local_stage.st.on_node_col_to_proc[l])], q)}

\* form_local_L_par_comm on local rank local_stage.at
StageFormL ==
    /\ local_stage.pc = "L"
    /\ \E msgs \in Orders(StageLMsgsTo(local_stage.at)) :
          local_stage' = StageAdvance([local_stage.st EXCEPT
                                  !.L_recv[local_stage.at] =
                                      L_recv_data(local_stage.st.on_node_col_to_proc[local_stage.at]),
                                  !.L_send[local_stage.at] = finalize(AddAll(NewLedger, msgs, 1))],
                               "L_done")
    /\ UNCHANGED stageFrame

StageNext == StageFormS \/ StageFormL

SpecStage == StageInit /\ [][StageNext]_vars

\* The local ranks whose stage is formed
StageFormed(l, working, done) ==
    \/ local_stage.pc = done
    \/ local_stage.pc = working /\ l < local_stage.at

NonDecreasing(s) == \A i \in 1 .. Len(s) - 1 : s[i] <= s[i + 1]

\* The local rank whose owned range contains col: the greatest one whose
\* first column is at most col
OwnerByRange(first_col, col) ==
    CHOOSE l \in LocalRanks :
        /\ first_col[l + 1] <= col
        /\ \A m \in LocalRanks : first_col[m + 1] <= col => m <= l

\* The distinct columns of local rank q that requester l must forward
Forwarded(l, q) ==
    SortedUnique({c \in Range(local_stage.st.G_send[l].indices) :
                     OwnerByRange(local_stage.st.local_col_starts, c) = q})

\* C29: with first columns that are non-decreasing in the local rank, the S
\* recv ledger of a process holds, for every local rank that owns a column
\* of its global send ledger by the range rule, one message with exactly
\* the distinct columns of that rank, and the S send ledger of a process
\* holds, for every requester that forwards a column of it, one message
\* with exactly these columns
C29_SStageAttributesByOwnedRange ==
    (local_stage.pc \in {"S", "S_done"}
        /\ NonDecreasing(local_stage.st.local_col_starts)) =>
    \A l \in LocalRanks :
        StageFormed(l, "S", "S_done") =>
            /\ MsgsOfLedger(local_stage.st.S_recv[l])
                  = {<<q, Forwarded(l, q)>> :
                     q \in {x \in LocalRanks : Forwarded(l, x) # << >>}}
            /\ Len(local_stage.st.S_recv[l].procs)
                  = Cardinality({x \in LocalRanks : Forwarded(l, x) # << >>})
            /\ MsgsOfLedger(local_stage.st.S_send[l])
                  = {<<p, Forwarded(p, l)>> :
                     p \in {x \in LocalRanks : Forwarded(x, l) # << >>}}
            /\ Len(local_stage.st.S_send[l].procs)
                  = Cardinality({x \in LocalRanks : Forwarded(x, l) # << >>})

\* the S stage is formed on a host with non-decreasing first columns where
\* the first process was asked twice for one column and a later process
\* has to send to two requesters
C29_Witness ==
    /\ local_stage.pc = "S_done"
    /\ NonDecreasing(local_stage.st.local_col_starts)
    /\ Len(local_stage.st.G_send[0].procs) = 2
    /\ Len(local_stage.st.G_send[0].indices)
          > Cardinality(Range(local_stage.st.G_send[0].indices))
    /\ \E q \in LocalRanks \ {0} : Len(local_stage.st.S_send[q].procs) = 2

\* The entries of s without repetition, in the order of their first
\* occurrence
RECURSIVE DistinctInOrder(_)
DistinctInOrder(s) ==
    IF Len(s) = 0 THEN << >>
    ELSE LET front == DistinctInOrder(SubSeq(s, 1, Len(s) - 1))
         IN  IF s[Len(s)] \in Range(front) THEN front ELSE Append(front, s[Len(s)])

\* The on-node columns of requester l that local rank q owns, as rows of q
RowsAsked(l, q) ==
    LET at == SelectSeq([j \in 1 .. Len(local_stage.st.on_node_col_to_proc[l]) |-> j],
                        LAMBDA j : local_stage.st.on_node_col_to_proc[l][j] = q)
    IN  [k \in 1 .. Len(at) |->
            local_stage.st.on_node_column_map[l][at[k]] - local_stage.st.first_local_row[q]]

\* C30: for an on-node column list sorted by owner, the L recv ledger has
\* one message per distinct owner, in list order, as long as the owner has
\* columns in the list; the lengths add up to the length of the list; the
\* L send ledger of an owner has, for that requester, one message with the
\* same columns less the first local row of the owner
C30_LStageOneMessagePerOwner ==
    local_stage.pc \in {"L", "L_done"} =>
    \A l \in LocalRanks :
        (StageFormed(l, "L", "L_done")
            /\ NonDecreasing(local_stage.st.on_node_col_to_proc[l])) =>
        LET owners == local_stage.st.on_node_col_to_proc[l]
            recv   == local_stage.st.L_recv[l]
        IN  /\ recv.procs = DistinctInOrder(owners)
            /\ \A i \in 1 .. Len(recv.procs) :
                  recv.counts[i]
                     = Cardinality({j \in 1 .. Len(owners) : owners[j] = recv.procs[i]})
            /\ SumSeq(recv.counts, 1) = Len(owners)
            /\ \A q \in LocalRanks :
                  StageFormed(q, "L", "L_done") =>
                     LET send == local_stage.st.L_send[q]
                         from == {k \in 1 .. Len(send.procs) : send.procs[k] = l}
                     IN  IF q \in Range(owners)
                         THEN /\ Cardinality(from) = 1
                              /\ \A k \in from : ReadSlice(send, k - 1) = RowsAsked(l, q)
                         ELSE from = {}

\* the L stage is formed on a host where a process has columns of two
\* owners, two of them of one owner, and an owner sends to two requesters
C30_Witness ==
    /\ local_stage.pc = "L_done"
    /\ \E l \in LocalRanks :
          /\ Len(local_stage.st.L_recv[l].procs) = 2
          /\ \E i \in 1 .. 2 : local_stage.st.L_recv[l].counts[i] = 2
    /\ \E q \in LocalRanks : Len(local_stage.st.L_send[q].procs) = 2

\* ------------------------------------------------------------------------
\* The handshake of the R, S and L stages among the processes of one host,
\* message by message (form_local_R_par_comm lines 447-514,
\* form_local_S_par_comm lines 680-767, form_local_L_par_comm lines 847-897)
\* ------------------------------------------------------------------------
\* The processes per host of the handshake model, on two hosts
ShakePPN == {2}

\* The lists of at most n entries out of S
RECURSIVE ListsUpTo(_, _)
ListsUpTo(S, n) ==
    IF n = 0 THEN {<< >>}
    ELSE {<< >>} \cup {Append(l, x) : l \in ListsUpTo(S, n - 1), x \in S}

\* local_recv_procs of the R stage, lines 447-456: 1 for every local
\* process that gets a message of the recv ledger
R_recv_procs(to_lcl) ==
    [q \in LocalRanks |->
        IF local_recv_displs(to_lcl, PPN)[q + 2] - local_recv_displs(to_lcl, PPN)[q + 1] > 0
        THEN 1 ELSE 0]

\* recv_procs of the S stage, lines 680-698: 1 for every local process an
\* id of the global send ledger is attributed to
S_recv_procs(G_send, local_col_starts) ==
    [q \in LocalRanks |->
        IF \E k \in 1 .. Len(G_send.indices) :
              orig_proc(local_col_starts, G_send.indices[k]) = q
        THEN 1 ELSE 0]

\* recv_procs of the L stage, lines 847-864: 1 for every owner in the list
L_recv_procs(on_node_col_to_proc) ==
    [q \in LocalRanks |-> IF q \in Range(on_node_col_to_proc) THEN 1 ELSE 0]

\* What a process brings to the handshake of a stage: the partners of its
\* recv ledger, in ledger order, and its indicators
ShakeInputs ==
    {[tag |-> 6543,
      procs |-> [l \in LocalRanks |->
                    R_recv_from(NewLedger, 0, local_recv_indices(to_lcl[l], PPN),
                                local_recv_displs(to_lcl[l], PPN), PPN).procs],
      recv_procs |-> [l \in LocalRanks |-> R_recv_procs(to_lcl[l])]] :
     to_lcl \in [LocalRanks -> ListsUpTo(LocalRanks, MaxStageCols)]}
    \cup
    {[tag |-> 4321,
      procs |-> [l \in LocalRanks |->
                    local_S_recv_data(in.G_send[l], in.local_col_starts, PPN).procs],
      recv_procs |-> [l \in LocalRanks |->
                         S_recv_procs(in.G_send[l], in.local_col_starts)]] :
     in \in StageSInputs}
    \cup
    {[tag |-> 7890,
      procs |-> [l \in LocalRanks |-> L_recv_data(in.on_node_col_to_proc[l]).procs],
      recv_procs |-> [l \in LocalRanks |-> L_recv_procs(in.on_node_col_to_proc[l])]] :
     in \in StageLInputs}

\* The MPI library completes a standard-mode send of this size on the call
\* (eager) or when the receive is matched; every run has one of the two
ShakeInit ==
    /\ rank_ordering = 1
    /\ PPN \in ShakePPN
    /\ num_nodes = 2
    /\ CutoffsIdle
    /\ topo = TopoIdle
    /\ gather = GatherIdle
    /\ disc = DiscIdle
    /\ prev = PrevNone
    /\ cover = CoverIdle
    /\ ledger = LedgerIdle
    /\ pkg = PkgIdle
    /\ exch = ExchIdle
    /\ tap = TapIdle
    /\ \E in \in ShakeInputs, eager \in BOOLEAN :
          local_stage = [pc |-> "handshake", in |-> in, eager |-> eager,
                         at |-> [l \in LocalRanks |-> "start"],
                         entered |-> {},
                         net |-> NoMessages,
                         requests |-> [l \in LocalRanks |-> [d \in LocalRanks |-> 0]],
                         num_sends |-> [l \in LocalRanks |-> 0],
                         send_procs |-> [l \in LocalRanks |-> << >>]]

\* MPI_Allreduce with MPI_MAX in place of MPI_SUM
local_num_sends_max(recv_procs, q) ==
    IF \E l \in LocalRanks : recv_procs[l][q] > 0 THEN 1 ELSE 0

\* A process that expects no message
local_num_sends_none(recv_procs, q) == 0

\* local_num_sends, num_sends, n_recvs (lines 460-462, 700-702, 866-868): the
\* entry of the process in the sum of the indicators of the host
local_num_sends(recv_procs, q) ==
    SumSeq([k \in 1 .. PPN |-> recv_procs[k - 1][q]], 1)

\* MPI_Waitall that returns without looking at the requests
WaitallReturnsAtOnce(l) == TRUE

\* MPI_Waitall on the requests of the recv ledger (lines 512-514, 764-766,
\* 895-896) returns when every send of the process has completed
WaitallReturns(l) == \A d \in LocalRanks : local_stage.requests[l][d] = 0

\* The process has built its recv ledger and enters MPI_Allreduce
ShakeEnter(l) ==
    /\ local_stage.pc = "handshake"
    /\ local_stage.at[l] = "start"
    /\ local_stage' = [local_stage EXCEPT !.at[l] = "allreduce",
                                          !.entered = @ \cup {l}]
    /\ UNCHANGED stageFrame

\* MPI_Allreduce returns once every process of the host has entered it; the
\* process issues one MPI_Isend per message of its recv ledger (lines
\* 464-487, 741-749, 870-877)
ShakeIsend(l) ==
    /\ local_stage.pc = "handshake"
    /\ local_stage.at[l] = "allreduce"
    /\ local_stage.entered = LocalRanks
    /\ LET n == local_num_sends(local_stage.in.recv_procs, l)
           to == local_stage.in.procs[l]
       IN  local_stage' = [local_stage EXCEPT
                             !.at[l] = IF n > 0 THEN "recv" ELSE "waitall",
                             !.num_sends[l] = n,
                             !.net = PutAll(@, l, to, 1),
                             !.requests[l] = [d \in LocalRanks |-> Count(to, d, 1)]]
    /\ UNCHANGED stageFrame

\* MPI_Probe(MPI_ANY_SOURCE, tag) finds a message of s, MPI_Recv takes it,
\* add_msg enters it in the send ledger (lines 489-508, 751-761, 879-892)
ShakeRecv(l, s) ==
    /\ local_stage.pc = "handshake"
    /\ local_stage.at[l] = "recv"
    /\ InFlight(local_stage.net, s, l) > 0
    /\ local_stage' = [local_stage EXCEPT
                          !.net = Take(@, s, l),
                          !.send_procs[l] = Append(@, s),
                          !.at[l] = IF Len(local_stage.send_procs[l]) + 1
                                         = local_stage.num_sends[l]
                                    THEN "waitall" ELSE "recv"]
    /\ UNCHANGED stageFrame

\* A send of l to d completes: on the call if the library sends eagerly,
\* else once d has taken the message
ShakeSendComplete(l, d) ==
    /\ local_stage.pc = "handshake"
    /\ local_stage.requests[l][d] > 0
    /\ local_stage.eager \/ InFlight(local_stage.net, l, d) < local_stage.requests[l][d]
    /\ local_stage' = [local_stage EXCEPT !.requests[l][d] = @ - 1]
    /\ UNCHANGED stageFrame

\* finalize of the send ledger, MPI_Waitall, return
ShakeWaitall(l) ==
    /\ local_stage.pc = "handshake"
    /\ local_stage.at[l] = "waitall"
    /\ WaitallReturns(l)
    /\ local_stage' = [local_stage EXCEPT !.at[l] = "returned"]
    /\ UNCHANGED stageFrame

ShakeNext ==
    \E l \in LocalRanks :
        \/ ShakeEnter(l)
        \/ ShakeIsend(l)
        \/ ShakeWaitall(l)
        \/ \E s \in LocalRanks : ShakeRecv(l, s)
        \/ \E d \in LocalRanks : ShakeSendComplete(l, d)

SpecShake == ShakeInit /\ [][ShakeNext]_vars

\* Every process runs on and the MPI library delivers and completes what it
\* can: a step that stays possible is taken
SpecShakeFair == ShakeInit /\ [][ShakeNext]_vars /\ WF_vars(ShakeNext)

SentTo(q) == SumSeq([k \in 1 .. PPN |-> Count(local_stage.in.procs[k - 1], q, 1)], 1)

AllReturned == \A l \in LocalRanks : local_stage.at[l] = "returned"

\* C37: the number of messages a process blocks to receive is the number of
\* messages the processes of its host send to it, and every process
\* returns from the stage
C37_HandshakeCountsAgree ==
    /\ [](\A l \in LocalRanks :
            local_stage.at[l] \in {"recv", "waitall", "returned"} =>
                local_stage.num_sends[l] = SentTo(l))
    /\ <>AllReturned

\* every process has returned and one of them received from two senders
C37_Witness ==
    /\ AllReturned
    /\ \E l \in LocalRanks : Len(local_stage.send_procs[l]) = 2

\* ------------------------------------------------------------------------
\* The setup messages of one construction: discovery and index exchange
\* among all processes (tags 9876, 6789, 5432), handshakes among the
\* processes of one host (tags 6543, 4321, 7890)
\* ------------------------------------------------------------------------
SetupNext ==
    \/ local_stage.pc = "idle" /\ ExchNext
    \/ local_stage.pc = "handshake" /\ ShakeNext

SpecSetup == (ExchInit \/ ShakeInit) /\ [][SetupNext]_vars

\* every function of the construction has returned on every process
SetupCompleted ==
    IF local_stage.pc = "handshake" THEN AllReturned
    ELSE \A r \in Procs : disc.pc[r] = "done" /\ exch.pc[r] = "done"

\* the setup messages sent and not received
SetupInFlight ==
    IF local_stage.pc = "handshake"
    THEN {<<local_stage.in.tag, m[1], m[2]>> : m \in BagToSet(local_stage.net)}
    ELSE {<<9876, m[1], m[2]>> : m \in BagToSet(disc.probe)} \cup
         {<<6789, m[1], m[2]>> : m \in BagToSet(disc.note)} \cup
         {<<5432, m[1], m[2]>> : m \in BagToSet(exch.net)}

\* C38: when the construction has completed on all processes no setup
\* message of any tag is sent and not received
C38_NoSetupMessageLeft == SetupCompleted => SetupInFlight = {}

\* the construction has completed on all processes of three hosts after
\* probes, notifications and index lists were exchanged
C38_Witness ==
    /\ local_stage.pc = "idle"
    /\ SetupCompleted
    /\ num_nodes = 3
    /\ \E r \in Procs : Len(disc.recv_procs[r]) = 2 /\ Len(exch.G_recv[r].procs) = 2
    /\ \E r \in Procs : exch.n_recvd[r] >= 1

\* the three handshakes completed too, messages having been received
C38_WitnessLocal ==
    /\ local_stage.pc = "handshake"
    /\ SetupCompleted
    /\ \E l \in LocalRanks : local_stage.num_sends[l] >= 1

\* ------------------------------------------------------------------------
\* gather_off_node_nodes as every process of one host runs it (lines
\* 92-208): each process marks its own columns, the two reductions hand
\* every process the same words and the same volumes
\* ------------------------------------------------------------------------
MaxViewVol == 3
ViewPPN == {2, 3}

NotReturned == [returned |-> FALSE]

\* Volumes a process would hold had it counted its own columns only
nodal_sizes_own(node_sizes, recv_nodes, l) ==
    [i \in 1 .. Len(recv_nodes) |-> node_sizes[l][recv_nodes[i]]]

\* nodal_off_node_sizes on local process l after the MPI_SUM reduction of
\* lines 136-144
nodal_sizes_on(node_sizes, recv_nodes, l) ==
    [i \in 1 .. Len(recv_nodes) |-> ReduceSUM(node_sizes, recv_nodes[i], PPN - 1)]

ViewInit ==
    /\ rank_ordering = 1
    /\ PPN \in ViewPPN
    /\ num_nodes = 3
    /\ CutoffsInit
    /\ topo = TopoIdle
    /\ disc = DiscIdle
    /\ prev = PrevNone
    /\ cover = CoverIdle
    /\ ledger = LedgerIdle
    /\ pkg = PkgIdle
    /\ exch = ExchIdle
    /\ tap = TapIdle
    /\ local_stage = StageOff
    /\ \E own \in 0 .. num_nodes - 1 :
         \E c \in HostColumnListsUpTo(own, num_nodes, PPN, MaxViewVol) :
            gather = [pc |-> "views", rank_node |-> own,
                      off_node_col_to_node |-> c,
                      out |-> [l \in LocalProcs(PPN) |-> NotReturned]]

\* Local process l runs gather_off_node_nodes to its end.  std::sort leaves
\* the order of equal volumes unspecified, but it is one function of its
\* input in one build: a process that sorts the volumes another process of
\* the run has sorted gets the same permutation.
ViewGather(l) ==
    /\ gather.pc = "views"
    /\ ~gather.out[l].returned
    /\ LET N  == NumWords(num_nodes)
           w0 == [i \in 0 .. N - 1 |-> 0]
           s0 == [nd \in 0 .. num_nodes - 1 |-> 0]
       IN  \E m \in {[k \in LocalProcs(PPN) |->
                        MarkNodes(gather.off_node_col_to_node[k], 1, w0, s0)]} :
           \E rn0 \in {DecodeBits([i \in 0 .. N - 1 |->
                            ReduceBOR([k \in LocalProcs(PPN) |-> m[k][1]], i, PPN - 1)],
                                   0, N)} :
           \E sizes \in {nodal_sizes_on([k \in LocalProcs(PPN) |-> m[k][2]], rn0, l)} :
           \E q \in SortedPerms(sizes) :
             /\ \A k \in LocalProcs(PPN) :
                    (gather.out[k].returned /\ gather.out[k].sizes = sizes)
                        => gather.out[k].p = q
             /\ LET nnl == FanOutLoop(1, q, sizes, [i \in 1 .. Len(rn0) |-> 1], PPN,
                                      eager_cutoff, short_cutoff, ideal_n_comm)
                    r   == ReorderLoop(1, q, rn0, nnl, [i \in 1 .. Len(rn0) |-> FALSE])
                IN  gather' = [gather EXCEPT
                                 !.out[l] = [returned |-> TRUE, sizes |-> sizes, p |-> q,
                                             recv_nodes |-> r[1],
                                             nodal_num_local |-> r[2]]]
    /\ UNCHANGED gatherFrame

ViewNext == \E l \in LocalProcs(PPN) : ViewGather(l)

SpecHostView == ViewInit /\ [][ViewNext]_vars

\* C39: the processes of a host that have returned from
\* gather_off_node_nodes hold the same ordered host list and the same
\* fan-out list, hence the same slots and the same first slot of every host
C39_SameListsOnEveryProcessOfHost ==
    gather.pc = "views" =>
    \A l, k \in LocalProcs(PPN) :
        (gather.out[l].returned /\ gather.out[k].returned) =>
            /\ gather.out[l].recv_nodes = gather.out[k].recv_nodes
            /\ gather.out[l].nodal_num_local = gather.out[k].nodal_num_local
            /\ SlotHosts(gather.out[l].recv_nodes, gather.out[l].nodal_num_local, 1)
                 = SlotHosts(gather.out[k].recv_nodes, gather.out[k].nodal_num_local, 1)
            /\ node_to_proc(gather.out[l].nodal_num_local, PPN)
                 = node_to_proc(gather.out[k].nodal_num_local, PPN)

\* every process of a host has returned, two of them need different
\* columns, the list was reordered and a host has a fan-out above one
C39_Witness ==
    /\ gather.pc = "views"
    /\ \A l \in LocalProcs(PPN) : gather.out[l].returned
    /\ \E l, k \in LocalProcs(PPN) :
          /\ Len(gather.off_node_col_to_node[l]) > 0
          /\ Len(gather.off_node_col_to_node[k]) > 0
          /\ Range(gather.off_node_col_to_node[l])
               \cap Range(gather.off_node_col_to_node[k]) = {}
          /\ Len(gather.out[l].recv_nodes) = 2
          /\ gather.out[l].recv_nodes[1] > gather.out[l].recv_nodes[2]
          /\ \E i \in 1 .. 2 : gather.out[l].nodal_num_local[i] > 1

\* ------------------------------------------------------------------------
\* The partners of the ledgers
\* ------------------------------------------------------------------------
\* every partner of ledger l is a rank of local_comm
PartnersLocal(l) == \A i \in 1 .. Len(l.procs) : l.procs[i] \in LocalProcs(PPN)

\* every partner of ledger l of process r is a global rank of another host
PartnersOffHost(l, r) ==
    \A i \in 1 .. Len(l.procs) : l.procs[i] \in Procs /\ NodeOf(l.procs[i]) # NodeOf(r)

\* C40: after the construction every partner of the L and R recv ledgers of
\* a process is an intra-host rank in 0 .. PPN - 1 (the global ledgers name
\* global ranks of other hosts: GlobalPartnersOffHost)
C40_LocalPartnersAreIntraHostRanks ==
    cover.pc = "done" => PartnersLocal(cover.L_recv) /\ PartnersLocal(cover.R_recv)

\* the same under the three supported policies
LocalPartnersWhenSupported ==
    (cover.pc = "done" /\ Supported) =>
        PartnersLocal(cover.L_recv) /\ PartnersLocal(cover.R_recv)

\* the partners of the global ledgers of a process that has returned from
\* form_global_par_comm are global ranks of other hosts
GlobalPartnersOffHost ==
    \A r \in Procs :
        exch.pc[r] = "done" =>
            PartnersOffHost(exch.G_recv[r], r) /\ PartnersOffHost(exch.G_send[r], r)
====
